---------------------------- MODULE Spec2Model ----------------------------
(***************************************************************************)
(* Verification model of the quantitative computation core of the         *)
(* Quant-Strategies repository: the pairs-trading signal loop, the         *)
(* historical VaR/CVaR measure, the CIR short-rate simulator, the CRR      *)
(* binomial lattice pricer, the Black-Scholes closed form, the Merton      *)
(* allocation, the GARCH(1,1) forecast, the Student-t kurtosis display,    *)
(* the portfolio statistics, the standard-normal sampler, the debounce of  *)
(* the simulation parameters, the path generators and the portfolio        *)
(* editor.                                                                 *)
(*                                                                         *)
(* JavaScript numbers (IEEE-754 doubles) are modelled by a small numeric   *)
(* domain: a finite value is a fixed-point integer (value * SCALE), and    *)
(* NaN, +Infinity and -Infinity are kept as separate values with the IEEE  *)
(* rules for arithmetic and comparison.  Every rounding is toward zero,    *)
(* which, like IEEE rounding, is monotone.                                 *)
(***************************************************************************)
EXTENDS Integers, Sequences, FiniteSets, TLC

(***************************************************************************)
(* The numeric domain                                                      *)
(***************************************************************************)
SCALE == 100 * 100

Fin(v) == [k |-> "fin", v |-> v]
NaN == [k |-> "nan", v |-> 0]
PInf == [k |-> "inf", v |-> 1]
NInf == [k |-> "inf", v |-> -1]

IsFin(a) == a.k = "fin"
IsNaN(a) == a.k = "nan"
IsInf(a) == a.k = "inf"

\* An integer literal n as a number.
Num(n) == Fin(n * SCALE)
\* A decimal literal n / den (den divides SCALE) as a number.
Dec(n, den) == Fin(n * (SCALE \div den))

AbsInt(x) == IF x < 0 THEN -x ELSE x
SgnInt(x) == IF x < 0 THEN -1 ELSE IF x > 0 THEN 1 ELSE 0
\* The sign of a number that is not NaN.
Sgn(a) == IF IsInf(a) THEN a.v ELSE SgnInt(a.v)

\* |x| * |y| / SCALE rounded down, split so that no product leaves 32 bits.
MulAbs(x, y) ==
    LET xh == x \div SCALE
        xl == x % SCALE
        yh == y \div SCALE
        yl == y % SCALE
    IN  xh * yh * SCALE + xh * yl + xl * yh + (xl * yl) \div SCALE

\* |x| * SCALE / |y| rounded down (y > 0), by long division in base 100.
DivAbs(x, y) ==
    LET q0 == x \div y
        r0 == x % y
        q1 == (r0 * 100) \div y
        r1 == (r0 * 100) % y
        q2 == (r1 * 100) \div y
    IN  q0 * SCALE + q1 * 100 + q2

NNeg(a) ==
    IF IsNaN(a) THEN NaN
    ELSE IF IsInf(a) THEN [k |-> "inf", v |-> -a.v]
    ELSE Fin(-a.v)

NAdd(a, b) ==
    IF IsNaN(a) \/ IsNaN(b) THEN NaN
    ELSE IF IsInf(a) /\ IsInf(b) THEN (IF a.v = b.v THEN a ELSE NaN)
    ELSE IF IsInf(a) THEN a
    ELSE IF IsInf(b) THEN b
    ELSE Fin(a.v + b.v)

NSub(a, b) == NAdd(a, NNeg(b))

NMul(a, b) ==
    IF IsNaN(a) \/ IsNaN(b) THEN NaN
    ELSE IF IsInf(a) \/ IsInf(b)
         THEN (IF Sgn(a) * Sgn(b) = 0 THEN NaN
               ELSE [k |-> "inf", v |-> Sgn(a) * Sgn(b)])
    ELSE Fin(SgnInt(a.v) * SgnInt(b.v) * MulAbs(AbsInt(a.v), AbsInt(b.v)))

\* IEEE division: x/0 is +-Infinity, 0/0 is NaN.
NDiv(a, b) ==
    IF IsNaN(a) \/ IsNaN(b) THEN NaN
    ELSE IF IsInf(a) /\ IsInf(b) THEN NaN
    ELSE IF IsInf(a) THEN [k |-> "inf", v |-> a.v * (IF Sgn(b) < 0 THEN -1 ELSE 1)]
    ELSE IF IsInf(b) THEN Fin(0)
    ELSE IF b.v = 0
         THEN (IF a.v = 0 THEN NaN ELSE [k |-> "inf", v |-> SgnInt(a.v)])
    ELSE Fin(SgnInt(a.v) * SgnInt(b.v) * DivAbs(AbsInt(a.v), AbsInt(b.v)))

\* Comparisons: every comparison with NaN is false.
NLt(a, b) ==
    /\ ~IsNaN(a)
    /\ ~IsNaN(b)
    /\ IF IsInf(a) /\ IsInf(b) THEN a.v < b.v
       ELSE IF IsInf(a) THEN a.v < 0
       ELSE IF IsInf(b) THEN b.v > 0
       ELSE a.v < b.v

NGt(a, b) == NLt(b, a)
NEq(a, b) == ~IsNaN(a) /\ ~IsNaN(b) /\ a = b
NLe(a, b) == NLt(a, b) \/ NEq(a, b)
NGe(a, b) == NLe(b, a)

\* Math.max: NaN if either argument is NaN.
NMax(a, b) ==
    IF IsNaN(a) \/ IsNaN(b) THEN NaN
    ELSE IF NLt(a, b) THEN b ELSE a

NAbs(a) == IF IsNaN(a) THEN NaN ELSE IF NLt(a, Fin(0)) THEN NNeg(a) ELSE a

\* The integer square root of n >= 0 (rounded down), by Newton's iteration
\* from x >= sqrt(n).
RECURSIVE ISqrtIn(_, _)
ISqrtIn(n, x) ==
    LET y == (x + n \div x) \div 2
    IN  IF y >= x THEN x ELSE ISqrtIn(n, y)

\* The iteration starts at the least power of two above sqrt(n).
ISqrt(n) ==
    IF n = 0 THEN 0
    ELSE IF n >= 2 ^ 30 THEN ISqrtIn(n, 46341)
    ELSE ISqrtIn(n, 2 ^ (CHOOSE k \in 0..15 : n < 2 ^ (2 * k) /\ (k = 0 \/ n >= 2 ^ (2 * k - 2))))

\* Math.sqrt: NaN below zero.
NSqrt(a) ==
    IF IsNaN(a) THEN NaN
    ELSE IF IsInf(a) THEN (IF a.v > 0 THEN PInf ELSE NaN)
    ELSE IF a.v < 0 THEN NaN
    ELSE IF a.v <= 200000 THEN Fin(ISqrt(a.v * SCALE))
    ELSE IF a.v <= 20000000 THEN Fin(ISqrt(a.v * 100) * 10)
    ELSE Fin(ISqrt(a.v) * 100)

\* x ** n for an integer n >= 0, as repeated multiplication; x ** 0 is 1
\* for every x, NaN included.
RECURSIVE NPow(_, _)
NPow(a, n) == IF n = 0 THEN Num(1) ELSE NMul(a, NPow(a, n - 1))

\* The Taylor sum of e^x from the term t = x^j / j! on, for |x| <= 1/2.
RECURSIVE ExpSeries(_, _, _)
ExpSeries(x, t, j) ==
    IF t = 0 \/ j > 12 THEN 0
    ELSE t + ExpSeries(x, (SgnInt(x) * SgnInt(t) * MulAbs(AbsInt(x), AbsInt(t))) \div (j + 1), j + 1)

\* e^x for a fixed-point x: halve the argument until |x| <= 1/2, then square.
\* Below x = -10 the value is under the resolution of the domain.
RECURSIVE ExpFix(_)
ExpFix(x) ==
    IF x < -10 * SCALE THEN 0
    ELSE IF AbsInt(x) <= SCALE \div 2 THEN ExpSeries(x, SCALE, 0)
    ELSE LET h == ExpFix(x \div 2)
             sq == MulAbs(h, h)
         IN  IF x % 2 = 0 THEN sq
             ELSE MulAbs(sq, ExpSeries(1, SCALE, 0))

\* Math.exp.
NExp(a) ==
    IF IsNaN(a) THEN NaN
    ELSE IF IsInf(a) THEN (IF a.v > 0 THEN PInf ELSE Fin(0))
    ELSE Fin(ExpFix(a.v))

\* 2 * atanh(z) = 2 (z + z^3/3 + z^5/5 + ...) from the term t = z^j on.
RECURSIVE AtanhSeries(_, _, _)
AtanhSeries(z2, t, j) ==
    IF t = 0 \/ j > 15 THEN 0
    ELSE t \div j + AtanhSeries(z2, SgnInt(t) * MulAbs(z2, AbsInt(t)), j + 2)

\* ln y for a fixed-point y > 0: bring y into [1/2, 2] with ln 2 = 0.6931.
RECURSIVE LnFix(_)
LnFix(y) ==
    IF y > 2 * SCALE THEN 6931 + LnFix(y \div 2)
    ELSE IF y < SCALE \div 2 THEN LnFix(y * 2) - 6931
    ELSE LET z == SgnInt(y - SCALE) * DivAbs(AbsInt(y - SCALE), y + SCALE)
         IN  2 * AtanhSeries(MulAbs(AbsInt(z), AbsInt(z)), z, 1)

\* Math.log: NaN below zero, -Infinity at zero.
NLog(a) ==
    IF IsNaN(a) THEN NaN
    ELSE IF IsInf(a) THEN (IF a.v > 0 THEN PInf ELSE NaN)
    ELSE IF a.v < 0 THEN NaN
    ELSE IF a.v = 0 THEN NInf
    ELSE Fin(LnFix(a.v))

\* Math.floor of a finite number, as an integer.
FloorInt(a) == a.v \div SCALE

(***************************************************************************)
(* The state                                                               *)
(***************************************************************************)
VARIABLES
    \* PairsTradingModel
    lookback,            \* useState(30), slider 10..60
    entryZ,              \* useState(2.0), slider 1.0..3.0
    exitZ,               \* useState(0.5), slider 0..1.5
    mergedData,          \* the joined KO/PEP series, date ascending
    zInput,              \* a synthetic series given by its z-scores
    pairsI,              \* the loop index i (0-based, as in the source)
    inTrade,             \* 0: no trade, 1: short spread, -1: long spread
    tradeSignals,        \* the emitted signal events
    spreadAnalysisData,  \* one record per data point
    pairsPc,             \* "idle", "loop" or "done"
    \* VaRCVaRModel
    SP500_DATA,          \* the price series of the data source
    confidence,          \* useState(95), in percent
    horizon,             \* useState(10), in days
    dailyReturns,        \* the sorted log returns
    histVaR,             \* historicalVaR
    histCVaR,            \* historicalCVaR
    riskPc,              \* "idle", "memo" or "done"
    \* InterestRateModel
    debouncedParams,     \* { r0, T, a, b, sigma } as the sliders give them
    cirArgs,             \* the arguments of generateCIRPaths
    cirDt,               \* dt
    cirPaths,            \* paths
    cirPath,             \* path
    currentRate,         \* currentRate
    cirI,                \* the path index i
    cirJ,                \* the step index j
    fellerConditionMet,  \* fellerConditionMet
    chartPaths,          \* the value of the memo: { paths, fellerMet }
    chartPathsDeps,      \* the dependencies [debouncedParams] chartPaths was computed for
    cirPc,               \* "idle", "memo", "outer", "inner" or "done"
    \* calculateBinomialPrice and blackScholesCall
    binArgs,             \* the arguments { S, K, T, r, sigma, steps }
    binDt,               \* dt
    binU,                \* u
    binD,                \* d
    binP,                \* p
    prices,              \* the array prices (prices[i] is prices[i + 1] here)
    binJ,                \* the layer index j of the backward induction
    binResult,           \* the value calculateBinomialPrice returns
    bsPrice,             \* the value blackScholesCall returns
    binPc,               \* "idle", "call", "terminal", "induct" or "done"
    \* BlackScholesModel
    bsS,                 \* S, useState(100)
    bsK,                 \* K, useState(105)
    bsT,                 \* T, useState(1), in years
    bsR,                 \* r, useState(5), in percent
    bsSigma,             \* sigma, useState(20), in percent
    callPrice,           \* callPrice
    putPrice,            \* putPrice
    bsPc,                \* "idle", "memo" or "done"
    \* StochasticControlModel
    mertonGamma,         \* gamma, useState(3)
    mertonMu,            \* mu, useState(8), in percent
    mertonSigma,         \* sigma, useState(20), in percent
    mertonR,             \* r, useState(3), in percent
    allocation,          \* allocation
    riskyFraction,       \* riskyFraction
    mertonPc,            \* "idle", "memo" or "done"
    \* GarchModel
    garchData,           \* SP500_DATA as GarchModel reads it
    garchReturns,        \* returns, in percent
    lastVariance,        \* lastVariance, in percent squared
    garchI,              \* the forecast day i
    priceForecast,       \* priceForecast
    volForecast,         \* volForecast
    priceChartData,      \* priceChartData
    volChartData,        \* volChartData
    garchPc,             \* "idle", "memo", "loop" or "done"
    \* LevyModelsModel
    dof,                 \* dof, useState(3)
    kurtosis,            \* kurtosis: { normal, t }
    kurtosisShown,       \* the two kurtosis texts of the card
    levyPc,              \* "idle", "memo", "render" or "done"
    \* calculatePortfolioStats
    portfolio,           \* the argument portfolio
    assetStats,          \* assetStats
    portfolioVariance,   \* portfolioVariance
    portfolioStats,      \* the value returned: { mean, vol }
    statsPc,             \* "idle", "call", "aggregate" or "done"
    \* randomNormal
    normU,               \* u
    normV,               \* v
    drawn,               \* the values Math.random() has returned, in order
    logArg,              \* the argument of Math.log (Null before the call)
    normal,              \* the value returned
    normPc,              \* "idle", "u", "v", "return" or "done"
    \* the debounce effect of MonteCarloModel
    paths,               \* paths (the live parameter)
    debouncedPaths,      \* debouncedPaths
    handlers,            \* the timeouts that are pending
    effects,             \* the number of times the effect has run after the mount
    sinceChange,         \* ticks since the effect last ran, up to DebounceDelay
    commitsSinceChange,  \* calls of setDebouncedPaths since the effect last ran
    held,                \* the values paths has held
    \* generatePaths, generateJumpPaths, generatePortfolioPaths
    simKind,             \* which generator runs: "gbm", "jump" or "portfolio"
    simArgs,             \* its arguments
    simDt,               \* dt
    allPaths,            \* allPaths (paths in generateJumpPaths)
    simPath,             \* path
    currentValue,        \* currentPrice / currentValue
    simI,                \* i
    simJ,                \* j
    simPc,               \* "idle", "call", "outer", "inner" or "done"
    \* PortfolioSimulator: the portfolio and its handlers
    portfolioState,      \* the state portfolio of the component
    newTicker,           \* newTicker
    lastHandler,         \* the handler that ran last, with its arguments
    edits                \* the number of handler calls

pairsVars == <<lookback, entryZ, exitZ, mergedData, zInput, pairsI, inTrade,
               tradeSignals, spreadAnalysisData, pairsPc>>
riskVars == <<SP500_DATA, confidence, horizon, dailyReturns, histVaR, histCVaR, riskPc>>
cirVars == <<debouncedParams, cirArgs, cirDt, cirPaths, cirPath, currentRate, cirI, cirJ,
             fellerConditionMet, chartPaths, chartPathsDeps, cirPc>>
binVars == <<binArgs, binDt, binU, binD, binP, prices, binJ, binResult, bsPrice, binPc>>
bsVars == <<bsS, bsK, bsT, bsR, bsSigma, callPrice, putPrice, bsPc>>
mertonVars == <<mertonGamma, mertonMu, mertonSigma, mertonR, allocation, riskyFraction, mertonPc>>
garchVars == <<garchData, garchReturns, lastVariance, garchI, priceForecast, volForecast, priceChartData, volChartData, garchPc>>
levyVars == <<dof, kurtosis, kurtosisShown, levyPc>>
statsVars == <<portfolio, assetStats, portfolioVariance, portfolioStats, statsPc>>
normalVars == <<normU, normV, drawn, logArg, normal, normPc>>
debounceVars == <<paths, debouncedPaths, handlers, effects, sinceChange, commitsSinceChange, held>>
simVars == <<simKind, simArgs, simDt, allPaths, simPath, currentValue, simI, simJ, simPc>>
editVars == <<portfolioState, newTicker, lastHandler, edits>>

vars == <<pairsVars, riskVars, cirVars, binVars, bsVars, mertonVars, garchVars, levyVars, statsVars, normalVars, debounceVars, simVars, editVars>>

\* What each component leaves alone.
notPairs == <<riskVars, cirVars, binVars, bsVars, mertonVars, garchVars, levyVars, statsVars, normalVars, debounceVars, simVars, editVars>>
notRisk == <<pairsVars, cirVars, binVars, bsVars, mertonVars, garchVars, levyVars, statsVars, normalVars, debounceVars, simVars, editVars>>
notCir == <<pairsVars, riskVars, binVars, bsVars, mertonVars, garchVars, levyVars, statsVars, normalVars, debounceVars, simVars, editVars>>
notBin == <<pairsVars, riskVars, cirVars, bsVars, mertonVars, garchVars, levyVars, statsVars, normalVars, debounceVars, simVars, editVars>>
notBs == <<pairsVars, riskVars, cirVars, binVars, mertonVars, garchVars, levyVars, statsVars, normalVars, debounceVars, simVars, editVars>>
notMerton == <<pairsVars, riskVars, cirVars, binVars, bsVars, garchVars, levyVars, statsVars, normalVars, debounceVars, simVars, editVars>>
notGarch == <<pairsVars, riskVars, cirVars, binVars, bsVars, mertonVars, levyVars, statsVars, normalVars, debounceVars, simVars, editVars>>
notLevy == <<pairsVars, riskVars, cirVars, binVars, bsVars, mertonVars, garchVars, statsVars, normalVars, debounceVars, simVars, editVars>>
notStats == <<pairsVars, riskVars, cirVars, binVars, bsVars, mertonVars, garchVars, levyVars, normalVars, debounceVars, simVars, editVars>>
notNormal == <<pairsVars, riskVars, cirVars, binVars, bsVars, mertonVars, garchVars, levyVars, statsVars, debounceVars, simVars, editVars>>
notDebounce == <<pairsVars, riskVars, cirVars, binVars, bsVars, mertonVars, garchVars, levyVars, statsVars, normalVars, simVars, editVars>>
notSim == <<pairsVars, riskVars, cirVars, binVars, bsVars, mertonVars, garchVars, levyVars, statsVars, normalVars, debounceVars, editVars>>
notEdit == <<pairsVars, riskVars, cirVars, binVars, bsVars, mertonVars, garchVars, levyVars, statsVars, normalVars, debounceVars, simVars>>

(***************************************************************************)
(* Pairs trading: the signal loop of PairsTradingModel                     *)
(***************************************************************************)
\* zScore, movingAvg and movingStd start as null.
Null == [k |-> "null", v |-> 0]

\* The length of the series the loop runs over.
SeriesLen == 14
\* The length of a synthetic z-score series.
ZSeriesLen == 5

\* Slider values of the lookback window (min 10, step 5).
LookbackValues == {10}
\* Slider values of the thresholds, (entryZ, exitZ) in tenths.
ThresholdValues == {<<20, 5>>, <<30, 0>>, <<10, 15>>}
\* The (price1, price2) pairs of the data source.
PricePairs == {<<1, 1>>, <<2, 1>>}

\* d.price1 / d.price2
Ratio(d) == NDiv(d.price1, d.price2)

\* A variant of Window that takes the first lookback ratios of the series.
WindowFromStart(data, i, lb) == [j \in 1..lb |-> Ratio(data[j])]

\* mergedData.slice(i - lookback + 1, i + 1).map(d => d.price1 / d.price2)
Window(data, i, lb) == [j \in 1..lb |-> Ratio(data[i - lb + 1 + j])]

\* window.reduce((a, b) => a + b, 0)
RECURSIVE SumFrom(_, _)
SumFrom(w, j) == IF j = 0 THEN Num(0) ELSE NAdd(SumFrom(w, j - 1), w[j])

\* window.reduce((acc, val) => acc + (val - movingAvg) ** 2, 0)
RECURSIVE SqDevFrom(_, _, _)
SqDevFrom(w, avg, j) ==
    IF j = 0 THEN Num(0)
    ELSE NAdd(SqDevFrom(w, avg, j - 1), NPow(NSub(w[j], avg), 2))

MovingAvg(w, lb) == NDiv(SumFrom(w, Len(w)), Num(lb))
MovingStd(w, lb) == NSqrt(NDiv(SqDevFrom(w, MovingAvg(w, lb), Len(w)), Num(lb)))
ZScore(ratio, w, lb) == NDiv(NSub(ratio, MovingAvg(w, lb)), MovingStd(w, lb))

\* A variant of EntersShort that also enters at z = entryZ.
EntersShortInclusive(z, eZ) == NGe(z, eZ)
\* A variant of ExitsShort that applies the long side's threshold -exitZ.
ExitsShortNegated(z, xZ) == NLt(z, NNeg(xZ))
\* A variant of ExitsLong that drops the sign of the threshold.
ExitsLongUnsigned(z, xZ) == NGt(z, xZ)

\* A variant of ExitsShort written as the negation of z >= exitZ.
ExitsShortUnlessAtLeast(z, xZ) == ~NGe(z, xZ)

\* The entry test of a flat machine for a short spread.
EntersShort(z, eZ) == NGt(z, eZ)
\* The entry test of a flat machine for a long spread.
EntersLong(z, eZ) == NLt(z, NNeg(eZ))
\* The exit test of a short spread.
ExitsShort(z, xZ) == NLt(z, xZ)
\* The exit test of a long spread.
ExitsLong(z, xZ) == NGt(z, NNeg(xZ))

\* A variant of SignalLogic that does nothing unless entryZ > exitZ >= 0.
SignalLogicGuarded(inTr, z, eZ, xZ) ==
    IF ~(NGt(eZ, xZ) /\ NGe(xZ, Num(0))) THEN [inTrade |-> inTr, type |-> "NONE"]
    ELSE IF inTr = 0
    THEN IF NGt(z, eZ) THEN [inTrade |-> 1, type |-> "SHORT"]
         ELSE IF NLt(z, NNeg(eZ)) THEN [inTrade |-> -1, type |-> "LONG"]
         ELSE [inTrade |-> inTr, type |-> "NONE"]
    ELSE IF inTr = 1
    THEN IF NLt(z, xZ) THEN [inTrade |-> 0, type |-> "EXIT"]
         ELSE [inTrade |-> inTr, type |-> "NONE"]
    ELSE IF NGt(z, NNeg(xZ)) THEN [inTrade |-> 0, type |-> "EXIT"]
         ELSE [inTrade |-> inTr, type |-> "NONE"]

\* A variant of SignalLogic that leaves a short spread as soon as z is below
\* the entry threshold.
SignalLogicEager(inTr, z, eZ, xZ) ==
    IF inTr = 0
    THEN IF NGt(z, eZ) THEN [inTrade |-> 1, type |-> "SHORT"]
         ELSE IF NLt(z, NNeg(eZ)) THEN [inTrade |-> -1, type |-> "LONG"]
         ELSE [inTrade |-> inTr, type |-> "NONE"]
    ELSE IF inTr = 1
    THEN IF NLt(z, eZ) THEN [inTrade |-> 0, type |-> "EXIT"]
         ELSE [inTrade |-> inTr, type |-> "NONE"]
    ELSE IF NGt(z, NNeg(xZ)) THEN [inTrade |-> 0, type |-> "EXIT"]
         ELSE [inTrade |-> inTr, type |-> "NONE"]

\* A variant of SignalLogic that reverses a position when z is beyond the
\* opposite entry threshold.
SignalLogicReversing(inTr, z, eZ, xZ) ==
    IF inTr = 0
    THEN IF NGt(z, eZ) THEN [inTrade |-> 1, type |-> "SHORT"]
         ELSE IF NLt(z, NNeg(eZ)) THEN [inTrade |-> -1, type |-> "LONG"]
         ELSE [inTrade |-> inTr, type |-> "NONE"]
    ELSE IF inTr = 1
    THEN IF NLt(z, NNeg(eZ)) THEN [inTrade |-> -1, type |-> "LONG"]
         ELSE IF NLt(z, xZ) THEN [inTrade |-> 0, type |-> "EXIT"]
         ELSE [inTrade |-> inTr, type |-> "NONE"]
    ELSE IF NGt(z, eZ) THEN [inTrade |-> 1, type |-> "SHORT"]
         ELSE IF NGt(z, NNeg(xZ)) THEN [inTrade |-> 0, type |-> "EXIT"]
         ELSE [inTrade |-> inTr, type |-> "NONE"]

\* The signal logic: the new inTrade and the type of the event pushed
\* ("NONE" when nothing is pushed).
SignalLogic(inTr, z, eZ, xZ) ==
    IF inTr = 0
    THEN IF EntersShort(z, eZ) THEN [inTrade |-> 1, type |-> "SHORT"]
         ELSE IF EntersLong(z, eZ) THEN [inTrade |-> -1, type |-> "LONG"]
         ELSE [inTrade |-> inTr, type |-> "NONE"]
    ELSE IF inTr = 1
    THEN IF ExitsShort(z, xZ) THEN [inTrade |-> 0, type |-> "EXIT"]
         ELSE [inTrade |-> inTr, type |-> "NONE"]
    ELSE IF inTr = -1
    THEN IF ExitsLong(z, xZ) THEN [inTrade |-> 0, type |-> "EXIT"]
         ELSE [inTrade |-> inTr, type |-> "NONE"]
    ELSE [inTrade |-> inTr, type |-> "NONE"]

\* A variant of PushSignal that keeps the latest event only.
PushSignalLatest(signals, out, date, z, ratio) ==
    IF out.type = "NONE" THEN signals
    ELSE <<[date |-> date, type |-> out.type, z |-> z, ratio |-> ratio]>>

\* tradeSignals.push({ date, type, z, ratio }) when an event is emitted.
PushSignal(signals, out, date, z, ratio) ==
    IF out.type = "NONE" THEN signals
    ELSE Append(signals, [date |-> date, type |-> out.type, z |-> z, ratio |-> ratio])

PairsIdle ==
    /\ lookback = 0
    /\ entryZ = Num(0)
    /\ exitZ = Num(0)
    /\ mergedData = <<>>
    /\ zInput = <<>>
    /\ pairsI = 0
    /\ inTrade = 0
    /\ tradeSignals = <<>>
    /\ spreadAnalysisData = <<>>
    /\ pairsPc = "idle"

\* The state on entry to the loop over the joined price series.  The loop
\* body at index i reads mergedData[0..i] only, so each point of the series
\* is fixed when the loop reaches it; the series has SeriesLen points.
PairsInit ==
    /\ lookback \in LookbackValues
    /\ \E th \in ThresholdValues :
          /\ entryZ = Dec(th[1], 10)
          /\ exitZ = Dec(th[2], 10)
    /\ mergedData = <<>>
    /\ zInput = <<>>
    /\ pairsI = 0
    /\ inTrade = 0
    /\ tradeSignals = <<>>
    /\ spreadAnalysisData = <<>>
    /\ pairsPc = "loop"

\* The body of the loop once zScore is known: the signal logic and the push
\* onto spreadAnalysisData.
Evaluate(d, ratio, movingAvg, zScore) ==
    LET out == SignalLogic(inTrade, zScore, entryZ, exitZ)
    IN  /\ inTrade' = out.inTrade
        /\ tradeSignals' = PushSignal(tradeSignals, out, d.date, zScore, ratio)
        /\ spreadAnalysisData' = Append(spreadAnalysisData,
               [date |-> d.date, ratio |-> ratio, ma |-> movingAvg, zScore |-> zScore])

\* The body of the loop for the data point pp at index pairsI.
PairsBody(pp) ==
    LET d == [date |-> pairsI + 1, price1 |-> Num(pp[1]), price2 |-> Num(pp[2])]
        data == Append(mergedData, d)
        ratio == Ratio(d)
    IN  /\ mergedData' = data
        /\ IF pairsI >= lookback - 1
           THEN LET w == Window(data, pairsI, lookback)
                IN  Evaluate(d, ratio, MovingAvg(w, lookback), ZScore(ratio, w, lookback))
           ELSE /\ UNCHANGED <<inTrade, tradeSignals>>
                /\ spreadAnalysisData' = Append(spreadAnalysisData,
                       [date |-> d.date, ratio |-> ratio, ma |-> Null, zScore |-> Null])

\* One iteration of the loop over mergedData.
PairsStep ==
    /\ pairsPc = "loop"
    /\ zInput = <<>>
    /\ pairsI < SeriesLen
    /\ \E pp \in PricePairs : PairsBody(pp)
    /\ pairsI' = pairsI + 1
    /\ UNCHANGED <<lookback, entryZ, exitZ, zInput, pairsPc>>
    /\ UNCHANGED notPairs

\* The loop ends and the memo returns the signals.
PairsReturn ==
    /\ pairsPc = "loop"
    /\ zInput = <<>>
    /\ pairsI >= SeriesLen
    /\ pairsPc' = "done"
    /\ UNCHANGED <<lookback, entryZ, exitZ, mergedData, zInput, pairsI, inTrade,
                   tradeSignals, spreadAnalysisData>>
    /\ UNCHANGED notPairs

\* The z-scores of a synthetic series, in tenths.
ZValues == {25, 12, -2, -25}

\* Every sequence over S of length 1..n.
SeqsUpTo(S, n) == UNION {[1..m -> S] : m \in 1..n}

\* The loop over a synthetic ratio series that is given by the z-score of
\* each of its points (the window is full from the first point on).
SignalInit ==
    /\ lookback = 1
    /\ \E th \in ThresholdValues :
          /\ entryZ = Dec(th[1], 10)
          /\ exitZ = Dec(th[2], 10)
    /\ mergedData = <<>>
    /\ zInput \in SeqsUpTo(ZValues, ZSeriesLen)
    /\ pairsI = 0
    /\ inTrade = 0
    /\ tradeSignals = <<>>
    /\ spreadAnalysisData = <<>>
    /\ pairsPc = "loop"

\* One iteration of the loop on a point whose z-score is given.
SignalStep ==
    /\ pairsPc = "loop"
    /\ zInput # <<>>
    /\ pairsI < Len(zInput)
    /\ LET d == [date |-> pairsI + 1]
           zScore == Dec(zInput[pairsI + 1], 10)
       IN  Evaluate(d, Null, Null, zScore)
    /\ pairsI' = pairsI + 1
    /\ UNCHANGED <<lookback, entryZ, exitZ, mergedData, zInput, pairsPc>>
    /\ UNCHANGED notPairs

\* The loop over the synthetic series ends.
SignalReturn ==
    /\ pairsPc = "loop"
    /\ zInput # <<>>
    /\ pairsI >= Len(zInput)
    /\ pairsPc' = "done"
    /\ UNCHANGED <<lookback, entryZ, exitZ, mergedData, zInput, pairsI, inTrade,
                   tradeSignals, spreadAnalysisData>>
    /\ UNCHANGED notPairs


\* The length of a series whose ratio changes seldom.
CalmSeriesLen == 20
\* The number of times the ratio of such a series changes.
MaxTurns == 2
\* Slider values of the thresholds for such a series, in tenths.
CalmThresholdValues == {<<20, 0>>}

\* The number of indices of the series at which the ratio differs from the
\* ratio of the point before.
RECURSIVE Turns(_, _)
Turns(data, n) ==
    IF n <= 1 THEN 0
    ELSE Turns(data, n - 1) + (IF Ratio(data[n]) = Ratio(data[n - 1]) THEN 0 ELSE 1)

\* The state on entry to the loop over a series whose ratio changes seldom.
CalmInit ==
    /\ lookback \in LookbackValues
    /\ \E th \in CalmThresholdValues :
          /\ entryZ = Dec(th[1], 10)
          /\ exitZ = Dec(th[2], 10)
    /\ mergedData = <<>>
    /\ zInput = <<>>
    /\ pairsI = 0
    /\ inTrade = 0
    /\ tradeSignals = <<>>
    /\ spreadAnalysisData = <<>>
    /\ pairsPc = "loop"

\* One iteration of the loop on the next point of such a series.
CalmStep ==
    /\ pairsPc = "loop"
    /\ zInput = <<>>
    /\ pairsI < CalmSeriesLen
    /\ \E pp \in PricePairs :
          /\ Turns(Append(mergedData, [date |-> pairsI + 1, price1 |-> Num(pp[1]),
                                       price2 |-> Num(pp[2])]), pairsI + 1) <= MaxTurns
          /\ PairsBody(pp)
    /\ pairsI' = pairsI + 1
    /\ UNCHANGED <<lookback, entryZ, exitZ, zInput, pairsPc>>
    /\ UNCHANGED notPairs

\* The loop over such a series ends.
CalmReturn ==
    /\ pairsPc = "loop"
    /\ zInput = <<>>
    /\ pairsI >= CalmSeriesLen
    /\ pairsPc' = "done"
    /\ UNCHANGED <<lookback, entryZ, exitZ, mergedData, zInput, pairsI, inTrade,
                   tradeSignals, spreadAnalysisData>>
    /\ UNCHANGED notPairs
(***************************************************************************)
(* Historical VaR / CVaR: the useMemo body of VaRCVaRModel                 *)
(***************************************************************************)
\* The longest price series of the data source.
MaxPrices == 6

\* Prices of the data source.
PriceValues == {100, 98, 103}
\* Confidence levels in percent.  The slider gives 90 to 99.5; 50 and 75
\* give tails of several returns on a short series, 1 puts the index on
\* the last return.
ConfidenceValues == {Num(1), Num(50), Num(75), Num(90), Num(95), Dec(995, 10)}
\* Horizons in days (slider 1 to 30).
HorizonValues == {1, 10}

\* Math.log(SP500_DATA[i].price / SP500_DATA[i-1].price) for i = 1 .. length - 1
LogReturns(data) ==
    [j \in 1..(Len(data) - 1) |-> NLog(NDiv(data[j + 1].price, data[j].price))]

\* Array.prototype.sort with (a, b) => a - b: insertion of x into a sorted s.
RECURSIVE InsertAsc(_, _)
InsertAsc(x, s) ==
    IF s = <<>> THEN <<x>>
    ELSE IF NGt(NSub(s[1], x), Num(0)) THEN <<x>> \o s
    ELSE <<s[1]>> \o InsertAsc(x, Tail(s))

RECURSIVE SortAsc(_)
SortAsc(s) == IF s = <<>> THEN <<>> ELSE InsertAsc(s[1], SortAsc(Tail(s)))

\* arr[idx] for a 0-based idx; out of range it is undefined, which is NaN
\* in arithmetic.
At(arr, idx) == IF idx >= 0 /\ idx < Len(arr) THEN arr[idx + 1] ELSE NaN

\* const alpha = 1 - confidence / 100
Alpha(conf) == NSub(Num(1), NDiv(conf, Num(100)))

\* Math.floor(alpha * dailyReturns.length)
VarIndex(conf, rets) == FloorInt(NMul(Alpha(conf), Num(Len(rets))))

\* -dailyReturns[varIndex] * Math.sqrt(horizon)
HistoricalVaR(rets, conf, h) ==
    NMul(NNeg(At(rets, VarIndex(conf, rets))), NSqrt(Num(h)))

\* A variant of Losses that takes the returns from the VaR index on.
LossesAbove(rets, conf) ==
    SubSeq(rets, FloorInt(NMul(NSub(Num(1), NDiv(conf, Num(100))), Num(Len(rets)))) + 1, Len(rets))

\* dailyReturns.slice(0, varIndex)
Losses(rets, conf) == SubSeq(rets, 1, VarIndex(conf, rets))

\* A variant of HistoricalCVaR that divides by losses.length unguarded.
HistoricalCVaRUnguarded(rets, conf, h) ==
    LET losses == SubSeq(rets, 1, FloorInt(NMul(NSub(Num(1), NDiv(conf, Num(100))), Num(Len(rets)))))
    IN  NMul(NDiv(NNeg(SumFrom(losses, Len(losses))), Num(Len(losses))), NSqrt(Num(h)))

\* losses.length > 0 ? -sum / losses.length * Math.sqrt(horizon) : 0
HistoricalCVaR(rets, conf, h) ==
    LET losses == Losses(rets, conf)
    IN  IF Len(losses) > 0
        THEN NMul(NDiv(NNeg(SumFrom(losses, Len(losses))), Num(Len(losses))), NSqrt(Num(h)))
        ELSE Num(0)

RiskIdle ==
    /\ SP500_DATA = <<>>
    /\ confidence = Num(0)
    /\ horizon = 0
    /\ dailyReturns = <<>>
    /\ histVaR = Null
    /\ histCVaR = Null
    /\ riskPc = "idle"

\* The component is mounted on some price series with some slider values.
RiskInit ==
    /\ \E n \in 2..MaxPrices : \E ps \in [1..n -> PriceValues] :
          SP500_DATA = [j \in 1..n |-> [date |-> j, price |-> Num(ps[j])]]
    /\ confidence \in ConfidenceValues
    /\ horizon \in HorizonValues
    /\ dailyReturns = <<>>
    /\ histVaR = Null
    /\ histCVaR = Null
    /\ riskPc = "memo"

\* The useMemo body: the sorted returns and the historical measures.
RiskCompute ==
    /\ riskPc = "memo"
    /\ LET rets == SortAsc(LogReturns(SP500_DATA))
       IN  /\ dailyReturns' = rets
           /\ histVaR' = HistoricalVaR(rets, confidence, horizon)
           /\ histCVaR' = HistoricalCVaR(rets, confidence, horizon)
    /\ riskPc' = "done"
    /\ UNCHANGED <<SP500_DATA, confidence, horizon>>
    /\ UNCHANGED notRisk

\* A slider moves: the memo is computed again for the new values.
RiskSetParams ==
    /\ riskPc = "done"
    /\ \E c \in ConfidenceValues, h \in HorizonValues :
          /\ <<c, h>> # <<confidence, horizon>>
          /\ confidence' = c
          /\ horizon' = h
    /\ riskPc' = "memo"
    /\ UNCHANGED <<SP500_DATA, dailyReturns, histVaR, histCVaR>>
    /\ UNCHANGED notRisk

(***************************************************************************)
(* CIR short-rate simulator: generateCIRPaths and the chartPaths memo      *)
(***************************************************************************)
\* The number of steps of a path; the source fixes steps = 252.
CirSteps == 4
\* The number of paths; the source generates 25.
CirPathCount == 1

\* Slider values { r0, T, a, b, sigma }: r0, b and sigma in percent.
CirParamValues ==
    { [r0 |-> Dec(r[1], 10), T |-> Num(r[2]), a |-> Dec(r[3], 100),
       b |-> Num(r[4]), sigma |-> Dec(r[5], 10)] :
        r \in { <<20, 5, 30, 3, 5>>,     \* the initial useState value
                <<1, 5, 30, 3, 20>>,
                <<1, 1, 5, 1, 50>>,
                <<1, 5, 5, 1, 50>>,
                <<100, 1, 100, 10, 1>> } }

\* Values of randomNormal().
NormalDraws == {Num(-3), Num(0), Num(3)}

\* A variant of ClampRate that leaves the rate as it is.
ClampRateNone(r) == r

\* Math.max(0, currentRate)
ClampRate(r) == NMax(Num(0), r)

\* const drift = a * (b - currentRate) * dt
CirDrift(args, rate, dt) == NMul(NMul(args.a, NSub(args.b, rate)), dt)

\* const diffusion = sigma * Math.sqrt(Math.max(0, currentRate)) * dW
CirDiffusion(args, rate, dW) == NMul(NMul(args.sigma, NSqrt(NMax(Num(0), rate))), dW)

\* const fellerConditionMet = 2 * a * b >= sigma ** 2, on debouncedParams
FellerCheck(p) == NGe(NMul(NMul(Num(2), p.a), p.b), NPow(p.sigma, 2))

CirIdle ==
    /\ debouncedParams = Null
    /\ cirArgs = Null
    /\ cirDt = Null
    /\ cirPaths = <<>>
    /\ cirPath = <<>>
    /\ currentRate = Null
    /\ cirI = 0
    /\ cirJ = 0
    /\ fellerConditionMet = FALSE
    /\ chartPaths = Null
    /\ chartPathsDeps = Null
    /\ cirPc = "idle"

\* The component is mounted with some slider values.
CirInit ==
    /\ debouncedParams \in CirParamValues
    /\ cirArgs = Null
    /\ cirDt = Null
    /\ cirPaths = <<>>
    /\ cirPath = <<>>
    /\ currentRate = Null
    /\ cirI = 0
    /\ cirJ = 0
    /\ fellerConditionMet = FALSE
    /\ chartPaths = Null
    /\ chartPathsDeps = Null
    /\ cirPc = "memo"

\* The memo starts: the Feller check, then the call
\* generateCIRPaths(r0 / 100, a, b / 100, sigma / 100, T) up to its loop.
CirMemo ==
    /\ cirPc = "memo"
    /\ fellerConditionMet' = FellerCheck(debouncedParams)
    /\ cirArgs' = [r0 |-> NDiv(debouncedParams.r0, Num(100)),
                   a |-> debouncedParams.a,
                   b |-> NDiv(debouncedParams.b, Num(100)),
                   sigma |-> NDiv(debouncedParams.sigma, Num(100)),
                   T |-> debouncedParams.T]
    /\ cirDt' = NDiv(debouncedParams.T, Num(CirSteps))
    /\ cirPaths' = <<>>
    /\ cirI' = 0
    /\ cirPc' = "outer"
    /\ UNCHANGED <<debouncedParams, cirPath, currentRate, cirJ, chartPaths, chartPathsDeps>>
    /\ UNCHANGED notCir

\* A path begins at (0, r0).
CirBeginPath ==
    /\ cirPc = "outer"
    /\ cirI < CirPathCount
    /\ cirPath' = <<[time |-> Num(0), rate |-> cirArgs.r0]>>
    /\ currentRate' = cirArgs.r0
    /\ cirJ' = 1
    /\ cirPc' = "inner"
    /\ UNCHANGED <<debouncedParams, cirArgs, cirDt, cirPaths, cirI, fellerConditionMet, chartPaths, chartPathsDeps>>
    /\ UNCHANGED notCir

\* One Euler step of the path.
CirStep ==
    /\ cirPc = "inner"
    /\ cirJ <= CirSteps
    /\ \E z \in NormalDraws :
          LET dW == NMul(z, NSqrt(cirDt))
              drift == CirDrift(cirArgs, currentRate, cirDt)
              diffusion == CirDiffusion(cirArgs, currentRate, dW)
              rate == ClampRate(NAdd(currentRate, NAdd(drift, diffusion)))
          IN  /\ currentRate' = rate
              /\ cirPath' = Append(cirPath, [time |-> NMul(Num(cirJ), cirDt), rate |-> rate])
    /\ cirJ' = cirJ + 1
    /\ UNCHANGED <<debouncedParams, cirArgs, cirDt, cirPaths, cirI, fellerConditionMet,
                   chartPaths, chartPathsDeps, cirPc>>
    /\ UNCHANGED notCir

\* The path is complete: paths.push(path).
CirEndPath ==
    /\ cirPc = "inner"
    /\ cirJ > CirSteps
    /\ cirPaths' = Append(cirPaths, cirPath)
    /\ cirI' = cirI + 1
    /\ cirPc' = "outer"
    /\ UNCHANGED <<debouncedParams, cirArgs, cirDt, cirPath, currentRate, cirJ,
                   fellerConditionMet, chartPaths, chartPathsDeps>>
    /\ UNCHANGED notCir

\* generateCIRPaths returns and the memo yields { paths, fellerMet }.
CirReturn ==
    /\ cirPc = "outer"
    /\ cirI >= CirPathCount
    /\ chartPaths' = [paths |-> cirPaths, fellerMet |-> fellerConditionMet]
    /\ chartPathsDeps' = debouncedParams
    /\ cirPc' = "done"
    /\ UNCHANGED <<debouncedParams, cirArgs, cirDt, cirPaths, cirPath, currentRate, cirI, cirJ,
                   fellerConditionMet>>
    /\ UNCHANGED notCir

\* The debounce timer fires: setDebouncedParams(params) stores a new params
\* object, whose values may equal the previous ones, and the memo runs
\* again; chartPaths keeps the previous result until the new one is ready.
CirSetDebouncedParams ==
    /\ cirPc = "done"
    /\ debouncedParams' \in CirParamValues
    /\ cirPc' = "memo"
    /\ UNCHANGED <<cirArgs, cirDt, cirPaths, cirPath, currentRate, cirI, cirJ,
                   fellerConditionMet, chartPaths, chartPathsDeps>>
    /\ UNCHANGED notCir

(***************************************************************************)
(* The normal CDF, blackScholesCall and the CRR lattice pricer             *)
(* calculateBinomialPrice                                                  *)
(***************************************************************************)
\* The largest step count of a lattice.
BinMaxSteps == 3

\* Arguments of the pricer: S, K, T in tenths of a year, r and sigma in
\* percent, steps.  The sliders give T >= 0.1, r >= 0 and sigma >= 5; T = 0,
\* sigma = 0 and r < 0 are the degenerate and invalid regimes of the function.
BinArgValues ==
    { [S |-> Num(s), K |-> Num(k), T |-> Dec(t, 10), r |-> Dec(r, 100),
       sigma |-> Dec(sg, 100), steps |-> n] :
        s \in {100, 110}, k \in {50, 105}, t \in {0, 5, 10}, r \in {-5, 0, 5}, sg \in {0, 1, 20},
        n \in 1..BinMaxSteps }

\* normalCDF: the Abramowitz-Stegun polynomial with the constants
\* 0.2316419, 0.3989423, 0.3193815, -0.3565638, 1.781478, -1.821256, 1.330274.
NormalCDF(x) ==
    LET t == NDiv(Num(1), NAdd(Num(1), NMul(Dec(2316, 10000), NAbs(x))))
        d == NMul(Dec(3989, 10000), NExp(NDiv(NMul(NNeg(x), x), Num(2))))
        poly == NAdd(Dec(3194, 10000),
                  NMul(t, NAdd(Dec(-3566, 10000),
                    NMul(t, NAdd(Dec(17815, 10000),
                      NMul(t, NAdd(Dec(-18213, 10000),
                        NMul(t, Dec(13303, 10000)))))))))
        prob == NMul(NMul(d, t), poly)
    IN  IF NGt(x, Num(0)) THEN NSub(Num(1), prob) ELSE prob

\* d1 = (Math.log(S / K) + (r + 0.5 * sigma ** 2) * T) / (sigma * Math.sqrt(T))
D1(S, K, T, r, sigma) ==
    NDiv(NAdd(NLog(NDiv(S, K)),
              NMul(NAdd(r, NMul(Dec(5, 10), NPow(sigma, 2))), T)),
         NMul(sigma, NSqrt(T)))

\* d2 = d1 - sigma * Math.sqrt(T)
D2(S, K, T, r, sigma) == NSub(D1(S, K, T, r, sigma), NMul(sigma, NSqrt(T)))

\* K * Math.exp(-r * T)
DiscountedStrike(K, T, r) == NMul(K, NExp(NMul(NNeg(r), T)))

\* blackScholesCall(S, K, T, r, sigma)
BlackScholesCall(S, K, T, r, sigma) ==
    IF NLe(T, Num(0)) \/ NLe(sigma, Num(0))
    THEN NMax(Num(0), NSub(S, DiscountedStrike(K, T, r)))
    ELSE NSub(NMul(S, NormalCDF(D1(S, K, T, r, sigma))),
              NMul(DiscountedStrike(K, T, r), NormalCDF(D2(S, K, T, r, sigma))))

\* A variant of NoArbitrageViolated that never rejects.
NoArbitrageNeverViolated(p) == FALSE

\* p < 0 || p > 1
NoArbitrageViolated(p) == NLt(p, Num(0)) \/ NGt(p, Num(1))

\* Math.max(0, S * (u ** (steps - i)) * (d ** i) - K)
TerminalPayoff(args, u, d, i) ==
    NMax(Num(0), NSub(NMul(NMul(args.S, NPow(u, args.steps - i)), NPow(d, i)), args.K))

\* (p * prices[i] + (1 - p) * prices[i + 1]) * Math.exp(-r * dt)
Discounted(p, here, next, r, dt) ==
    NMul(NAdd(NMul(p, here), NMul(NSub(Num(1), p), next)), NExp(NMul(NNeg(r), dt)))

\* A variant of InductLayer that walks the layer from i = j down to 0.
RECURSIVE InductLayerDescending(_, _, _, _, _, _)
InductLayerDescending(pr, i, j, p, r, dt) ==
    IF i > j THEN pr
    ELSE InductLayerDescending(
             [pr EXCEPT ![j - i + 1] = Discounted(p, pr[j - i + 1], pr[j - i + 2], r, dt)],
             i + 1, j, p, r, dt)

\* The inner loop for (i = 0; i <= j; i++) on the array pr, from index i on.
RECURSIVE InductLayer(_, _, _, _, _, _)
InductLayer(pr, i, j, p, r, dt) ==
    IF i > j THEN pr
    ELSE InductLayer([pr EXCEPT ![i + 1] = Discounted(p, pr[i + 1], pr[i + 2], r, dt)],
                     i + 1, j, p, r, dt)

BinIdle ==
    /\ binArgs = Null
    /\ binDt = Null
    /\ binU = Null
    /\ binD = Null
    /\ binP = Null
    /\ prices = <<>>
    /\ binJ = Null
    /\ binResult = Null
    /\ bsPrice = Null
    /\ binPc = "idle"

\* The pricer is about to be called with some arguments.
BinInit ==
    /\ binArgs \in BinArgValues
    /\ binDt = Null
    /\ binU = Null
    /\ binD = Null
    /\ binP = Null
    /\ prices = <<>>
    /\ binJ = Null
    /\ binResult = Null
    /\ bsPrice = Null
    /\ binPc = "call"

\* calculateBinomialPrice up to the no-arbitrage check; the closed-form
\* price of the same arguments is computed for comparison.
BinCall ==
    /\ binPc = "call"
    /\ LET dt == NDiv(binArgs.T, Num(binArgs.steps))
           u == NExp(NMul(binArgs.sigma, NSqrt(dt)))
           d == NDiv(Num(1), u)
           p == NDiv(NSub(NExp(NMul(binArgs.r, dt)), d), NSub(u, d))
       IN  /\ binDt' = dt
           /\ binU' = u
           /\ binD' = d
           /\ binP' = p
           /\ IF NoArbitrageViolated(p)
              THEN binResult' = Num(0) /\ binPc' = "done"
              ELSE binResult' = binResult /\ binPc' = "terminal"
    /\ bsPrice' = BlackScholesCall(binArgs.S, binArgs.K, binArgs.T, binArgs.r, binArgs.sigma)
    /\ UNCHANGED <<binArgs, prices, binJ>>
    /\ UNCHANGED notBin

\* The payoffs at maturity.
BinTerminal ==
    /\ binPc = "terminal"
    /\ prices' = [m \in 1..(binArgs.steps + 1) |-> TerminalPayoff(binArgs, binU, binD, m - 1)]
    /\ binJ' = binArgs.steps - 1
    /\ binPc' = "induct"
    /\ UNCHANGED <<binArgs, binDt, binU, binD, binP, binResult, bsPrice>>
    /\ UNCHANGED notBin

\* One layer j of the backward induction, in place.
BinInduct ==
    /\ binPc = "induct"
    /\ binJ >= 0
    /\ prices' = InductLayer(prices, 0, binJ, binP, binArgs.r, binDt)
    /\ binJ' = binJ - 1
    /\ UNCHANGED <<binArgs, binDt, binU, binD, binP, binResult, bsPrice, binPc>>
    /\ UNCHANGED notBin

\* return prices[0]
BinReturn ==
    /\ binPc = "induct"
    /\ binJ < 0
    /\ binResult' = prices[1]
    /\ binPc' = "done"
    /\ UNCHANGED <<binArgs, binDt, binU, binD, binP, prices, binJ, bsPrice>>
    /\ UNCHANGED notBin

(***************************************************************************)
(* Black-Scholes closed form: the callPrice / putPrice memo of             *)
(* BlackScholesModel                                                       *)
(***************************************************************************)
\* Values of S, K, T (tenths of a year), r and sigma (percent).  The sliders
\* give T >= 0.1 and sigma >= 5; T = 0 and sigma = 0 are the degenerate
\* inputs of the routine.
BsSpotValues == {Num(90), Num(100), Num(110), Num(120)}
BsStrikeValues == {Num(100), Num(105)}
BsMaturityValues == {Dec(0, 10), Dec(5, 10), Dec(10, 10)}
BsRateValues == {Num(0), Num(5)}
BsSigmaValues == {Num(0), Num(20), Num(40)}

\* The memo: { callPrice, putPrice } of S, K, T, r, sigma.
BlackScholesPrices(S, K, T, r, sigma) ==
    LET rDecimal == NDiv(r, Num(100))
        sigmaDecimal == NDiv(sigma, Num(100))
        d1 == D1(S, K, T, rDecimal, sigmaDecimal)
        d2 == D2(S, K, T, rDecimal, sigmaDecimal)
    IN  IF NLe(T, Num(0)) \/ NLe(sigmaDecimal, Num(0))
        THEN [callPrice |-> Num(0), putPrice |-> Num(0)]
        ELSE [callPrice |-> NSub(NMul(S, NormalCDF(d1)),
                                 NMul(DiscountedStrike(K, T, rDecimal), NormalCDF(d2))),
              putPrice |-> NSub(NMul(DiscountedStrike(K, T, rDecimal), NormalCDF(NNeg(d2))),
                                NMul(S, NormalCDF(NNeg(d1))))]

BsIdle ==
    /\ bsS = Null
    /\ bsK = Null
    /\ bsT = Null
    /\ bsR = Null
    /\ bsSigma = Null
    /\ callPrice = Null
    /\ putPrice = Null
    /\ bsPc = "idle"

\* The component is mounted with some values of its five parameters.
BsInit ==
    /\ bsS \in BsSpotValues
    /\ bsK \in BsStrikeValues
    /\ bsT \in BsMaturityValues
    /\ bsR \in BsRateValues
    /\ bsSigma \in BsSigmaValues
    /\ callPrice = Null
    /\ putPrice = Null
    /\ bsPc = "memo"

\* The useMemo body.
BsMemo ==
    /\ bsPc = "memo"
    /\ LET out == BlackScholesPrices(bsS, bsK, bsT, bsR, bsSigma)
       IN  /\ callPrice' = out.callPrice
           /\ putPrice' = out.putPrice
    /\ bsPc' = "done"
    /\ UNCHANGED <<bsS, bsK, bsT, bsR, bsSigma>>
    /\ UNCHANGED notBs

\* The maturity or the volatility slider moves: the memo runs again.
BsSetParams ==
    /\ bsPc = "done"
    /\ \E t \in BsMaturityValues, sg \in BsSigmaValues :
          /\ <<t, sg>> # <<bsT, bsSigma>>
          /\ bsT' = t
          /\ bsSigma' = sg
    /\ bsPc' = "memo"
    /\ UNCHANGED <<bsS, bsK, bsR, callPrice, putPrice>>
    /\ UNCHANGED notBs

(***************************************************************************)
(* Merton portfolio fraction: the allocation / riskyFraction memo of       *)
(* StochasticControlModel                                                  *)
(***************************************************************************)
\* Slider values: gamma, and mu, sigma and r in percent.
MertonGammaValues == {Num(1), Num(3), Num(10)}
MertonMuValues == {Num(2), Num(8), Num(15)}
MertonSigmaValues == {Num(10), Num(20), Num(40)}
MertonRValues == {Num(0), Num(3), Num(8)}

\* const calculatedFraction = (muDecimal - rDecimal) / (gamma * sigmaDecimal ** 2)
CalculatedFraction(gamma, mu, sigma, r) ==
    LET muDecimal == NDiv(mu, Num(100))
        sigmaDecimal == NDiv(sigma, Num(100))
        rDecimal == NDiv(r, Num(100))
    IN  NDiv(NSub(muDecimal, rDecimal), NMul(gamma, NPow(sigmaDecimal, 2)))

\* Math.min: NaN if either argument is NaN.
NMin(a, b) ==
    IF IsNaN(a) \/ IsNaN(b) THEN NaN
    ELSE IF NLt(b, a) THEN b ELSE a

\* const cappedRisky = Math.max(-1, Math.min(2, calculatedFraction))
CappedRisky(calculatedFraction) == NMax(Num(-1), NMin(Num(2), calculatedFraction))

\* A variant of ReportedFraction that reports the capped value.
ReportedFractionCapped(calculatedFraction, cappedRisky) == cappedRisky

\* riskyFraction: calculatedFraction
ReportedFraction(calculatedFraction, cappedRisky) == calculatedFraction

\* allocationData
AllocationData(cappedRisky) ==
    << [name |-> "Risky Asset (Stocks)", value |-> cappedRisky],
       [name |-> "Risk-Free Asset (Bonds)", value |-> NSub(Num(1), cappedRisky)] >>

MertonIdle ==
    /\ mertonGamma = Null
    /\ mertonMu = Null
    /\ mertonSigma = Null
    /\ mertonR = Null
    /\ allocation = Null
    /\ riskyFraction = Null
    /\ mertonPc = "idle"

\* The component is mounted with some slider values.
MertonInit ==
    /\ mertonGamma \in MertonGammaValues
    /\ mertonMu \in MertonMuValues
    /\ mertonSigma \in MertonSigmaValues
    /\ mertonR \in MertonRValues
    /\ allocation = Null
    /\ riskyFraction = Null
    /\ mertonPc = "memo"

\* The useMemo body.
MertonMemo ==
    /\ mertonPc = "memo"
    /\ LET calculatedFraction == CalculatedFraction(mertonGamma, mertonMu, mertonSigma, mertonR)
           cappedRisky == CappedRisky(calculatedFraction)
       IN  /\ allocation' = AllocationData(cappedRisky)
           /\ riskyFraction' = ReportedFraction(calculatedFraction, cappedRisky)
    /\ mertonPc' = "done"
    /\ UNCHANGED <<mertonGamma, mertonMu, mertonSigma, mertonR>>
    /\ UNCHANGED notMerton

\* The risk-aversion slider moves: the memo runs again.
MertonSetGamma ==
    /\ mertonPc = "done"
    /\ \E g \in MertonGammaValues :
          /\ g # mertonGamma
          /\ mertonGamma' = g
    /\ mertonPc' = "memo"
    /\ UNCHANGED <<mertonMu, mertonSigma, mertonR, allocation, riskyFraction>>
    /\ UNCHANGED notMerton

(***************************************************************************)
(* GARCH(1,1) forecast: the priceChartData / volChartData memo of          *)
(* GarchModel.  Returns are held in percent and variances in percent       *)
(* squared (the source's values times 100 and 10^4): the recursion is      *)
(* homogeneous in (omega, squared return, variance), and omega = 0.000001  *)
(* is 0.01 percent squared.                                                *)
(***************************************************************************)
\* const forecastDays = 60
GarchForecastDays == 60

\* const omega = 0.000001, in percent squared
GarchOmega == Dec(1, 100)
\* const alpha = 0.1
GarchAlpha == Dec(1, 10)
\* const beta = 0.88
GarchBeta == Dec(88, 100)

\* The longest price series GarchModel is run on.
GarchMaxPrices == 4

\* returns: Math.log(SP500_DATA[i].price / SP500_DATA[i-1].price), in percent
GarchReturns(data) ==
    [j \in 1..(Len(data) - 1) |-> NMul(Num(100), NLog(NDiv(data[j + 1].price, data[j].price)))]

\* returns.reduce((acc, val) => acc + val*val, 0), on the first n returns
RECURSIVE SumSquares(_, _)
SumSquares(returns, n) ==
    IF n = 0 THEN Num(0) ELSE NAdd(SumSquares(returns, n - 1), NMul(returns[n], returns[n]))

\* let lastVariance = returns.reduce(...) / returns.length
SeedVariance(returns) == NDiv(SumSquares(returns, Len(returns)), Num(Len(returns)))

\* omega + alpha * (returns[returns.length - 1] ** 2) + beta * lastVariance
VarianceUpdate(returns, variance) ==
    NAdd(NAdd(GarchOmega, NMul(GarchAlpha, NPow(At(returns, Len(returns) - 1), 2))),
         NMul(GarchBeta, variance))

\* annualizedVol = Math.sqrt(lastVariance) * Math.sqrt(252), in percent
AnnualizedVol(variance) == NMul(NSqrt(variance), NSqrt(Num(252)))

\* coneWidth = centerPrice * annualizedVol * Math.sqrt(i/252)
ConeWidth(centerPrice, annualizedVol, i) ==
    NMul(NMul(centerPrice, NDiv(annualizedVol, Num(100))), NSqrt(NDiv(Num(i), Num(252))))

GarchIdle ==
    /\ garchData = <<>>
    /\ garchReturns = <<>>
    /\ lastVariance = Null
    /\ garchI = 0
    /\ priceForecast = <<>>
    /\ volForecast = <<>>
    /\ priceChartData = Null
    /\ volChartData = Null
    /\ garchPc = "idle"

\* The component is mounted on some price series.
GarchInit ==
    /\ \E n \in 2..GarchMaxPrices : \E ps \in [1..n -> PriceValues] :
          garchData = [j \in 1..n |-> [date |-> j, price |-> Num(ps[j])]]
    /\ garchReturns = <<>>
    /\ lastVariance = Null
    /\ garchI = 0
    /\ priceForecast = <<>>
    /\ volForecast = <<>>
    /\ priceChartData = Null
    /\ volChartData = Null
    /\ garchPc = "memo"

\* The memo up to the forecast loop: the returns and the seed variance.
GarchBegin ==
    /\ garchPc = "memo"
    /\ garchReturns' = GarchReturns(garchData)
    /\ lastVariance' = SeedVariance(GarchReturns(garchData))
    /\ garchI' = 1
    /\ priceForecast' = <<>>
    /\ volForecast' = <<>>
    /\ garchPc' = "loop"
    /\ UNCHANGED <<garchData, priceChartData, volChartData>>
    /\ UNCHANGED notGarch

\* One forecast day: the variance update and the two chart points.
GarchStep ==
    /\ garchPc = "loop"
    /\ garchI <= GarchForecastDays
    /\ LET variance == VarianceUpdate(garchReturns, lastVariance)
           annualizedVol == AnnualizedVol(variance)
           centerPrice == garchData[Len(garchData)].price
           coneWidth == ConeWidth(centerPrice, annualizedVol, garchI)
       IN  /\ lastVariance' = variance
           /\ priceForecast' = Append(priceForecast,
                 [day |-> garchI, price |-> Null, historicalPrice |-> Null,
                  range |-> <<NSub(centerPrice, coneWidth), NAdd(centerPrice, coneWidth)>>])
           /\ volForecast' = Append(volForecast, [day |-> garchI, volatility |-> annualizedVol])
    /\ garchI' = garchI + 1
    /\ UNCHANGED <<garchData, garchReturns, priceChartData, volChartData, garchPc>>
    /\ UNCHANGED notGarch

\* The memo returns { priceChartData, volChartData }.
GarchReturn ==
    /\ garchPc = "loop"
    /\ garchI > GarchForecastDays
    /\ priceChartData' =
          [j \in 1..Len(garchData) |->
              [day |-> garchData[j].date - Len(garchData), price |-> garchData[j].price,
               historicalPrice |-> garchData[j].price, range |-> Null]] \o priceForecast
    /\ volChartData' = volForecast
    /\ garchPc' = "done"
    /\ UNCHANGED <<garchData, garchReturns, lastVariance, garchI, priceForecast, volForecast>>
    /\ UNCHANGED notGarch

(***************************************************************************)
(* Student-t kurtosis: the kurtosis of the memo of LevyModelsModel and     *)
(* its display.  distData, which the kurtosis does not read, is left out.  *)
(***************************************************************************)
\* Slider Degrees of Freedom: min 1, max 30, step 1.
DofValues == 1..30

\* Number.prototype.toFixed(2): the text of a number with two decimals,
\* held as its count of hundredths; "Infinity" and "NaN" for the others.
ToFixed2(a) ==
    IF IsNaN(a) THEN [kind |-> "NaN", hundredths |-> 0]
    ELSE IF IsInf(a) THEN [kind |-> "Infinity", hundredths |-> 0]
    ELSE [kind |-> "fixed",
          hundredths |-> SgnInt(a.v) * ((AbsInt(a.v) + (SCALE \div 200)) \div (SCALE \div 100))]

\* The text "Undefined".
UndefinedText == [kind |-> "Undefined", hundredths |-> 0]

\* let kurt = Infinity; if (dof > 4) { kurt = 3 + (6 / (dof - 4)); }
Kurt(nu) == IF nu > 4 THEN NAdd(Num(3), NDiv(Num(6), NSub(Num(nu), Num(4)))) ELSE PInf

\* A variant of ShowsUndefined that is exclusive at 4.
ShowsUndefinedBelow(nu) == nu < 4

\* dof <= 4 ? "Undefined" : ...
ShowsUndefined(nu) == nu <= 4

\* {dof <= 4 ? "Undefined" : kurtosis.t.toFixed(2)}
KurtosisText(nu, k) == IF ShowsUndefined(nu) THEN UndefinedText ELSE ToFixed2(k.t)

LevyIdle ==
    /\ dof = 0
    /\ kurtosis = Null
    /\ kurtosisShown = Null
    /\ levyPc = "idle"

\* The component is mounted with some slider value.
LevyInit ==
    /\ dof \in DofValues
    /\ kurtosis = Null
    /\ kurtosisShown = Null
    /\ levyPc = "memo"

\* The useMemo body: kurtosis: { normal: 3, t: kurt }.
LevyMemo ==
    /\ levyPc = "memo"
    /\ kurtosis' = [normal |-> Num(3), t |-> Kurt(dof)]
    /\ levyPc' = "render"
    /\ UNCHANGED <<dof, kurtosisShown>>
    /\ UNCHANGED notLevy

\* The card is rendered from the memo.
LevyRender ==
    /\ levyPc = "render"
    /\ kurtosisShown' = [normal |-> ToFixed2(kurtosis.normal), t |-> KurtosisText(dof, kurtosis)]
    /\ levyPc' = "done"
    /\ UNCHANGED <<dof, kurtosis>>
    /\ UNCHANGED notLevy

\* The slider moves: setDof.
LevySetDof ==
    /\ levyPc = "done"
    /\ \E nu \in DofValues :
          /\ nu # dof
          /\ dof' = nu
    /\ levyPc' = "memo"
    /\ UNCHANGED <<kurtosis, kurtosisShown>>
    /\ UNCHANGED notLevy

(***************************************************************************)
(* Multi-asset aggregator: calculatePortfolioStats                         *)
(***************************************************************************)
\* The largest number of assets of a portfolio.
MaxAssets == 2

\* Tickers of a portfolio; "XOM" has no entry in STOCK_DATA.
Tickers == {"AAPL", "MSFT", "NVDA", "KO", "XOM"}

\* The keys of STOCK_DATA.
StockTickers == {"AAPL", "MSFT", "NVDA", "KO"}

\* STOCK_DATA[ticker] for a key: price series of four, three, two and one
\* points.
STOCK_DATA(ticker) ==
    LET series(ps) == [j \in 1..Len(ps) |-> [date |-> j, price |-> Num(ps[j])]]
    IN  CASE ticker = "AAPL" -> series(<<100, 98, 103, 100>>)
          [] ticker = "MSFT" -> series(<<50, 51, 50>>)
          [] ticker = "NVDA" -> series(<<20, 21>>)
          [] ticker = "KO" -> series(<<60>>)
          [] OTHER -> <<>>

\* Weights of an asset: the range input gives 0 to 1; -0.5 is a short
\* position only a caller of the function can pass.
WeightValues == {Dec(-5, 10), Num(0), Dec(5, 10), Num(1)}

\* returns.reduce((acc, val) => acc + (val - meanDailyReturn)**2, 0), on the
\* first n returns
RECURSIVE SumSqDev(_, _, _)
SumSqDev(returns, mean, n) ==
    IF n = 0 THEN Num(0)
    ELSE NAdd(SumSqDev(returns, mean, n - 1), NPow(NSub(returns[n], mean), 2))

\* returns.reduce((a, b) => a + b, 0), on the first n returns
RECURSIVE SumReturns(_, _)
SumReturns(returns, n) ==
    IF n = 0 THEN Num(0) ELSE NAdd(SumReturns(returns, n - 1), returns[n])

\* A variant of TooFewReturns that accepts a single return.
TooFewReturnsBelowOne(returns) == Len(returns) < 1

\* returns.length < 2
TooFewReturns(returns) == Len(returns) < 2

\* The callback of portfolio.map: the statistics of one asset.
AssetStat(asset) ==
    LET assetData == STOCK_DATA(asset.ticker)
        zero == [ticker |-> asset.ticker, weight |-> asset.weight,
                 annualReturn |-> Num(0), annualVol |-> Num(0)]
    IN  IF asset.ticker \notin StockTickers THEN zero
        ELSE IF Len(assetData) < 2 THEN zero
        ELSE LET returns == LogReturns(assetData)
                 meanDailyReturn == NDiv(SumReturns(returns, Len(returns)), Num(Len(returns)))
                 variance == NDiv(SumSqDev(returns, meanDailyReturn, Len(returns)),
                                  Num(Len(returns) - 1))
                 dailyVol == NSqrt(variance)
             IN  IF TooFewReturns(returns) THEN zero
                 ELSE [ticker |-> asset.ticker, weight |-> asset.weight,
                       annualReturn |-> NMul(meanDailyReturn, Num(252)),
                       annualVol |-> NMul(dailyVol, NSqrt(Num(252)))]

\* assetStats.reduce((acc, stat) => acc + stat.annualReturn * stat.weight, 0),
\* on the first n statistics
RECURSIVE PortfolioMeanReturn(_, _)
PortfolioMeanReturn(stats, n) ==
    IF n = 0 THEN Num(0)
    ELSE NAdd(PortfolioMeanReturn(stats, n - 1), NMul(stats[n].annualReturn, stats[n].weight))

\* const avgCorrelation = 0.4
AvgCorrelation == Dec(4, 10)

\* The term the loop body adds for the pair (i, j).
VarianceTerm(stats, i, j) ==
    IF i = j
    THEN NMul(NPow(stats[i].weight, 2), NPow(stats[i].annualVol, 2))
    ELSE NMul(NMul(NMul(NMul(stats[i].weight, stats[j].weight), stats[i].annualVol),
                   stats[j].annualVol), AvgCorrelation)

\* The double loop over (i, j) in row order, on the first k pairs.
RECURSIVE PortfolioVariance(_, _)
PortfolioVariance(stats, k) ==
    IF k = 0 THEN Num(0)
    ELSE NAdd(PortfolioVariance(stats, k - 1),
              VarianceTerm(stats, ((k - 1) \div Len(stats)) + 1, ((k - 1) % Len(stats)) + 1))

\* const safeVariance = Math.max(0, portfolioVariance)
SafeVariance(variance) == NMax(Num(0), variance)

StatsIdle ==
    /\ portfolio = <<>>
    /\ assetStats = <<>>
    /\ portfolioVariance = Null
    /\ portfolioStats = Null
    /\ statsPc = "idle"

\* The function is about to be called on some portfolio.
StatsInit ==
    /\ \E n \in 0..MaxAssets :
          portfolio \in [1..n -> [ticker : Tickers, weight : WeightValues]]
    /\ assetStats = <<>>
    /\ portfolioVariance = Null
    /\ portfolioStats = Null
    /\ statsPc = "call"

\* The empty portfolio returns at once; otherwise the per-asset statistics.
StatsPerAsset ==
    /\ statsPc = "call"
    /\ IF Len(portfolio) = 0
       THEN /\ portfolioStats' = [mean |-> Num(0), vol |-> Num(0)]
            /\ assetStats' = assetStats
            /\ statsPc' = "done"
       ELSE /\ assetStats' = [j \in 1..Len(portfolio) |-> AssetStat(portfolio[j])]
            /\ portfolioStats' = portfolioStats
            /\ statsPc' = "aggregate"
    /\ UNCHANGED <<portfolio, portfolioVariance>>
    /\ UNCHANGED notStats

\* The mean, the variance under the average correlation, and the result.
StatsAggregate ==
    /\ statsPc = "aggregate"
    /\ LET variance == PortfolioVariance(assetStats, Len(assetStats) * Len(assetStats))
       IN  /\ portfolioVariance' = variance
           /\ portfolioStats' = [mean |-> PortfolioMeanReturn(assetStats, Len(assetStats)),
                                 vol |-> NSqrt(SafeVariance(variance))]
    /\ statsPc' = "done"
    /\ UNCHANGED <<portfolio, assetStats>>
    /\ UNCHANGED notStats

(***************************************************************************)
(* The standard-normal sampler: randomNormal                               *)
(***************************************************************************)
\* The largest number of draws of one invocation: the uniform source
\* returns 0 only while the draws still needed fit into MaxDraws.
MaxDraws == 4

\* Values of Math.random(), which lie in [0, 1): 0, the least positive
\* value of the domain, 1/4, 1/2, 3/4 and the greatest value below 1.
UniformValues == {Fin(0), Fin(1), Dec(1, 4), Dec(1, 2), Dec(3, 4), Fin(SCALE - 1)}

\* What Math.random() can return after n draws when the invocation needs
\* `needed` more non-zero values.
RandomAfter(n, needed) ==
    IF n + needed < MaxDraws THEN UniformValues ELSE UniformValues \ {Fin(0)}

\* Math.PI
PiFix == 31416

\* The Taylor sum of cos x from the term t = (-1)^j x^(2j) / (2j)! on.
RECURSIVE CosSeries(_, _, _)
CosSeries(x2, t, j) ==
    IF t = 0 \/ j > 8 THEN 0
    ELSE t + CosSeries(x2, (-SgnInt(t) * MulAbs(x2, AbsInt(t))) \div ((2 * j + 1) * (2 * j + 2)), j + 1)

\* cos x for a fixed-point x >= 0: bring x into [0, pi/2] by the period and
\* the symmetries of the cosine.
CosFix(x) ==
    LET a == x % (2 * PiFix)
        b == IF a > PiFix THEN 2 * PiFix - a ELSE a
    IN  IF 2 * b > PiFix
        THEN -CosSeries(MulAbs(PiFix - b, PiFix - b), SCALE, 0)
        ELSE CosSeries(MulAbs(b, b), SCALE, 0)

\* Math.cos; NaN at an infinite argument.
NCos(a) ==
    IF IsNaN(a) \/ IsInf(a) THEN NaN ELSE Fin(CosFix(AbsInt(a.v)))

\* A variant of DrawsAgain that never draws again.
DrawsAgainNever(x) == FALSE

\* The condition of the two while loops: u === 0, v === 0.
DrawsAgain(x) == x = Num(0)

\* Math.sqrt(-2.0 * Math.log(u)) * Math.cos(2.0 * Math.PI * v)
BoxMuller(u, v) ==
    NMul(NSqrt(NMul(Num(-2), NLog(u))), NCos(NMul(NMul(Num(2), Fin(PiFix)), v)))

NormalIdle ==
    /\ normU = Null
    /\ normV = Null
    /\ drawn = <<>>
    /\ logArg = Null
    /\ normal = Null
    /\ normPc = "idle"

\* let u = 0, v = 0
NormalInit ==
    /\ normU = Num(0)
    /\ normV = Num(0)
    /\ drawn = <<>>
    /\ logArg = Null
    /\ normal = Null
    /\ normPc = "u"

\* while (u === 0) u = Math.random(): one iteration.
NormalDrawU ==
    /\ normPc = "u"
    /\ DrawsAgain(normU)
    /\ \E x \in RandomAfter(Len(drawn), 2) :
          /\ normU' = x
          /\ drawn' = Append(drawn, x)
    /\ UNCHANGED <<normV, logArg, normal, normPc>>
    /\ UNCHANGED notNormal

\* The first loop ends.
NormalEndU ==
    /\ normPc = "u"
    /\ ~DrawsAgain(normU)
    /\ normPc' = "v"
    /\ UNCHANGED <<normU, normV, drawn, logArg, normal>>
    /\ UNCHANGED notNormal

\* while (v === 0) v = Math.random(): one iteration.
NormalDrawV ==
    /\ normPc = "v"
    /\ DrawsAgain(normV)
    /\ \E x \in RandomAfter(Len(drawn), 1) :
          /\ normV' = x
          /\ drawn' = Append(drawn, x)
    /\ UNCHANGED <<normU, logArg, normal, normPc>>
    /\ UNCHANGED notNormal

\* The second loop ends.
NormalEndV ==
    /\ normPc = "v"
    /\ ~DrawsAgain(normV)
    /\ normPc' = "return"
    /\ UNCHANGED <<normU, normV, drawn, logArg, normal>>
    /\ UNCHANGED notNormal

\* The return statement.
NormalReturn ==
    /\ normPc = "return"
    /\ logArg' = normU
    /\ normal' = BoxMuller(normU, normV)
    /\ normPc' = "done"
    /\ UNCHANGED <<normU, normV, drawn>>
    /\ UNCHANGED notNormal

(***************************************************************************)
(* The debounce effect: useEffect(() => { const handler = setTimeout(...);  *)
(* return () => clearTimeout(handler) }, [paths])                          *)
(***************************************************************************)
\* The delay of setTimeout, 300 ms, in ticks of 100 ms.
DebounceDelay == 3
\* The largest number of changes of the parameter.
MaxChanges == 4

\* Values of the slider.
PathsValues == {1000, 2000, 3000}
\* useState(1000)
InitialPaths == 1000

\* A variant of NewHandler whose timeout is due at once.
NewHandlerNoDelay(id, value) == [id |-> id, due |-> 0, value |-> value]

\* setTimeout(() => setDebouncedPaths(paths), 300): the timeout of the
\* effect run number id, which commits the value of paths of that render.
NewHandler(id, value) == [id |-> id, due |-> DebounceDelay, value |-> value]

\* A variant of ClearTimeout that clears nothing.
ClearTimeoutNone(pending, id) == pending

\* clearTimeout(handler): no effect when the timeout has fired already.
ClearTimeout(pending, id) == {h \in pending : h.id # id}

DebounceIdle ==
    /\ paths = 0
    /\ debouncedPaths = 0
    /\ handlers = {}
    /\ effects = 0
    /\ sinceChange = 0
    /\ commitsSinceChange = 0
    /\ held = {}

\* The component is mounted: both states hold the initial value and the
\* effect has run once.
DebounceInit ==
    /\ paths = InitialPaths
    /\ debouncedPaths = InitialPaths
    /\ handlers = {NewHandler(0, InitialPaths)}
    /\ effects = 0
    /\ sinceChange = 0
    /\ commitsSinceChange = 0
    /\ held = {InitialPaths}

\* The slider moves: setPaths(v), the render, the cleanup of the previous
\* effect and the effect of the new render.
SetPaths ==
    /\ paths # 0
    /\ effects < MaxChanges
    /\ \E v \in PathsValues \ {paths} :
          /\ paths' = v
          /\ handlers' = ClearTimeout(handlers, effects) \cup {NewHandler(effects + 1, v)}
          /\ held' = held \cup {v}
    /\ effects' = effects + 1
    /\ sinceChange' = 0
    /\ commitsSinceChange' = 0
    /\ UNCHANGED debouncedPaths
    /\ UNCHANGED notDebounce

\* 100 ms pass; a timeout that is due runs first.
DebounceTick ==
    /\ paths # 0
    /\ \A h \in handlers : h.due > 0
    /\ handlers # {} \/ sinceChange < DebounceDelay
    /\ handlers' = {[h EXCEPT !.due = h.due - 1] : h \in handlers}
    /\ sinceChange' = IF sinceChange < DebounceDelay THEN sinceChange + 1 ELSE sinceChange
    /\ UNCHANGED <<paths, debouncedPaths, effects, commitsSinceChange, held>>
    /\ UNCHANGED notDebounce

\* A timeout fires: setDebouncedPaths(paths) with the value it captured.
DebounceCommit ==
    /\ \E h \in handlers :
          /\ h.due = 0
          /\ debouncedPaths' = h.value
          /\ handlers' = handlers \ {h}
    /\ commitsSinceChange' = commitsSinceChange + 1
    /\ UNCHANGED <<paths, effects, sinceChange, held>>
    /\ UNCHANGED notDebounce

(***************************************************************************)
(* The GBM, jump-diffusion and portfolio path generators: generatePaths,   *)
(* generateJumpPaths and generatePortfolioPaths                            *)
(***************************************************************************)
\* The number of steps of a path; the sources fix 100, 252 and 100.
SimSteps == 3
\* The number of paths; the sources take the slider value, 20 and the
\* slider value.
SimPathCount == 1

\* Arguments of generatePaths: S0, T, r and sigma (r and sigma divided by
\* 100 by the caller).
GbmArgValues ==
    {[S0 |-> Num(100), T |-> t, r |-> Dec(5, 100), sigma |-> Dec(20, 100)] :
        t \in {Dec(1, 2), Num(1), Num(2)}}

\* Arguments of generateJumpPaths.
JumpArgValues ==
    {[S0 |-> Num(100), T |-> t, r |-> Dec(5, 100), sigma |-> Dec(20, 100),
      lambda |-> Dec(5, 10), mu |-> Dec(-1, 10), delta |-> Dec(2, 10)] :
        t \in {Dec(1, 2), Num(1), Num(2)}}

\* Arguments of generatePortfolioPaths.
PortfolioArgValues ==
    {[initialValue |-> Num(1000), mean |-> Dec(10, 100), vol |-> Dec(20, 100), T |-> t] :
        t \in {Dec(1, 2), Num(1), Num(2)}}

\* Values of randomNormal() and of Math.random() in the generators.
SimNormalDraws == {Num(-1), Num(1)}
SimUniformDraws == {Fin(0), Dec(1, 2)}

\* A variant of FirstPoint that starts the path one step late.
FirstPointLate(kind, args, dt) ==
    IF kind = "portfolio" THEN [time |-> dt, value |-> args.initialValue]
    ELSE [time |-> dt, price |-> args.S0]

\* const path = [{ time: 0, price: S0 }] / [{ time: 0, value: initialValue }]
FirstPoint(kind, args, dt) ==
    IF kind = "portfolio" THEN [time |-> Num(0), value |-> args.initialValue]
    ELSE [time |-> Num(0), price |-> args.S0]

\* path.push({ time: j * dt, price: currentPrice }) / ({ time: j * dt, value })
NextPoint(kind, j, dt, current) ==
    IF kind = "portfolio" THEN [time |-> NMul(Num(j), dt), value |-> current]
    ELSE [time |-> NMul(Num(j), dt), price |-> current]

\* currentPrice *= Math.exp(drift + diffusion * randomNormal())
GbmStep(args, dt, current, z) ==
    LET drift == NMul(NSub(args.r, NMul(Dec(5, 10), NMul(args.sigma, args.sigma))), dt)
        diffusion == NMul(args.sigma, NSqrt(dt))
    IN  NMul(current, NExp(NAdd(drift, NMul(diffusion, z))))

\* currentPrice *= Math.exp(drift + diffusion) * (1 + jump)
JumpStep(args, dt, current, poissonDraw, zJump, z) ==
    LET jump == IF NLt(poissonDraw, NMul(args.lambda, dt))
                THEN NSub(NExp(NAdd(args.mu, NMul(args.delta, zJump))), Num(1))
                ELSE Num(0)
        comp == NSub(NExp(NAdd(args.mu, NMul(Dec(5, 10), NMul(args.delta, args.delta)))), Num(1))
        drift == NMul(NSub(NSub(args.r, NMul(Dec(5, 10), NMul(args.sigma, args.sigma))),
                           NMul(args.lambda, comp)), dt)
        diffusion == NMul(NMul(args.sigma, NSqrt(dt)), z)
    IN  NMul(current, NMul(NExp(NAdd(drift, diffusion)), NAdd(Num(1), jump)))

\* currentValue *= Math.exp(drift + diffusion)
PortfolioStep(args, dt, current, z) ==
    LET drift == NMul(NSub(args.mean, NMul(Dec(5, 10), NPow(args.vol, 2))), dt)
        diffusion == NMul(NMul(args.vol, NSqrt(dt)), z)
    IN  NMul(current, NExp(NAdd(drift, diffusion)))

SimIdle ==
    /\ simKind = "none"
    /\ simArgs = Null
    /\ simDt = Null
    /\ allPaths = <<>>
    /\ simPath = <<>>
    /\ currentValue = Null
    /\ simI = 0
    /\ simJ = 0
    /\ simPc = "idle"

\* One of the generators is about to be called.
SimInit ==
    /\ simKind \in {"gbm", "jump", "portfolio"}
    /\ simArgs \in (CASE simKind = "gbm" -> GbmArgValues
                      [] simKind = "jump" -> JumpArgValues
                      [] OTHER -> PortfolioArgValues)
    /\ simDt = Null
    /\ allPaths = <<>>
    /\ simPath = <<>>
    /\ currentValue = Null
    /\ simI = 0
    /\ simJ = 0
    /\ simPc = "call"

\* const dt = T / steps, up to the loop over the paths.
SimCall ==
    /\ simPc = "call"
    /\ simDt' = NDiv(simArgs.T, Num(SimSteps))
    /\ simPc' = "outer"
    /\ UNCHANGED <<simKind, simArgs, allPaths, simPath, currentValue, simI, simJ>>
    /\ UNCHANGED notSim

\* A path begins with its first point.
SimBeginPath ==
    /\ simPc = "outer"
    /\ simI < SimPathCount
    /\ simPath' = <<FirstPoint(simKind, simArgs, simDt)>>
    /\ currentValue' = (IF simKind = "portfolio" THEN simArgs.initialValue ELSE simArgs.S0)
    /\ simJ' = 1
    /\ simPc' = "inner"
    /\ UNCHANGED <<simKind, simArgs, simDt, allPaths, simI>>
    /\ UNCHANGED notSim

\* One step of the path.
SimStep ==
    /\ simPc = "inner"
    /\ simJ <= SimSteps
    /\ \E z \in SimNormalDraws, zJump \in SimNormalDraws, u \in SimUniformDraws :
          LET current == CASE simKind = "gbm" -> GbmStep(simArgs, simDt, currentValue, z)
                           [] simKind = "jump" -> JumpStep(simArgs, simDt, currentValue, u, zJump, z)
                           [] OTHER -> PortfolioStep(simArgs, simDt, currentValue, z)
          IN  /\ currentValue' = current
              /\ simPath' = Append(simPath, NextPoint(simKind, simJ, simDt, current))
    /\ simJ' = simJ + 1
    /\ UNCHANGED <<simKind, simArgs, simDt, allPaths, simI, simPc>>
    /\ UNCHANGED notSim

\* The path is complete: allPaths.push(path).
SimEndPath ==
    /\ simPc = "inner"
    /\ simJ > SimSteps
    /\ allPaths' = Append(allPaths, simPath)
    /\ simI' = simI + 1
    /\ simPc' = "outer"
    /\ UNCHANGED <<simKind, simArgs, simDt, simPath, currentValue, simJ>>
    /\ UNCHANGED notSim

\* The loop over the paths ends.
SimReturn ==
    /\ simPc = "outer"
    /\ simI >= SimPathCount
    /\ simPc' = "done"
    /\ UNCHANGED <<simKind, simArgs, simDt, allPaths, simPath, currentValue, simI, simJ>>
    /\ UNCHANGED notSim

(***************************************************************************)
(* PortfolioSimulator: handleAddAsset, handleRemoveAsset,                  *)
(* handleWeightChange and normalizeWeights                                 *)
(***************************************************************************)
\* The largest number of handler calls.
MaxEdits == 4

\* Texts of the ticker input: empty, a key of STOCK_DATA in lower case, a
\* ticker that is in the initial portfolio, and a ticker without data.
TickerInputs == {"", "ko", "aapl", "XOM"}

\* Values of the range input of a weight (0 to 100).
WeightInputs == {0, 5, 15}

\* String.prototype.toUpperCase on the texts of the input.
ToUpperCase(t) ==
    CASE t = "ko" -> "KO"
      [] t = "aapl" -> "AAPL"
      [] OTHER -> t

\* assets.reduce((sum, a) => sum + a.weight, 0), on the first n assets
RECURSIVE TotalWeight(_, _)
TotalWeight(assets, n) ==
    IF n = 0 THEN Num(0) ELSE NAdd(TotalWeight(assets, n - 1), assets[n].weight)

\* A variant of NormalizeWeights that divides by the total whatever it is.
NormalizeWeightsUnguarded(assets) ==
    [j \in 1..Len(assets) |->
        [assets[j] EXCEPT !.weight = NDiv(assets[j].weight, TotalWeight(assets, Len(assets)))]]

\* normalizeWeights: the value it passes to setPortfolio.
NormalizeWeights(assets) ==
    LET totalWeight == TotalWeight(assets, Len(assets))
    IN  IF NGt(totalWeight, Num(0))
        THEN [j \in 1..Len(assets) |->
                 [assets[j] EXCEPT !.weight = NDiv(assets[j].weight, totalWeight)]]
        ELSE assets

\* portfolio.find(a => a.ticker === tickerUpper), as a truth value
Finds(assets, ticker) == \E j \in 1..Len(assets) : assets[j].ticker = ticker

\* A variant of CanAdd that does not look for the ticker in the portfolio.
CanAddPresent(assets, tickerUpper) ==
    /\ tickerUpper # ""
    /\ tickerUpper \in StockTickers

\* tickerUpper && STOCK_DATA[tickerUpper] && !portfolio.find(...)
CanAdd(assets, tickerUpper) ==
    /\ tickerUpper # ""
    /\ tickerUpper \in StockTickers
    /\ ~Finds(assets, tickerUpper)

\* portfolio.filter(a => a.ticker !== ticker)
RECURSIVE Without(_, _)
Without(assets, ticker) ==
    IF assets = <<>> THEN <<>>
    ELSE IF assets[1].ticker # ticker THEN <<assets[1]>> \o Without(Tail(assets), ticker)
    ELSE Without(Tail(assets), ticker)

\* portfolio.map(a => a.ticker === ticker ? { ...a, weight: newWeight / 100 } : a)
WithWeight(assets, ticker, newWeight) ==
    [j \in 1..Len(assets) |->
        IF assets[j].ticker = ticker
        THEN [assets[j] EXCEPT !.weight = NDiv(Num(newWeight), Num(100))]
        ELSE assets[j]]

EditIdle ==
    /\ portfolioState = <<>>
    /\ newTicker = ""
    /\ lastHandler = [name |-> "none"]
    /\ edits = 0

\* useState: the initial portfolio and an empty ticker input.
EditInit ==
    /\ portfolioState = <<[ticker |-> "AAPL", weight |-> Dec(3, 10)],
                          [ticker |-> "MSFT", weight |-> Dec(3, 10)],
                          [ticker |-> "NVDA", weight |-> Dec(4, 10)]>>
    /\ newTicker = ""
    /\ lastHandler = [name |-> "mount"]
    /\ edits = 0

\* The ticker input changes: setNewTicker(e.target.value).
SetNewTicker ==
    /\ lastHandler.name # "none"
    /\ edits < MaxEdits
    /\ \E t \in TickerInputs \ {newTicker} :
          /\ newTicker' = t
          /\ lastHandler' = [name |-> "setNewTicker", text |-> t]
    /\ UNCHANGED <<portfolioState, edits>>
    /\ UNCHANGED notEdit

\* The Add button.
HandleAddAsset ==
    /\ lastHandler.name # "none"
    /\ edits < MaxEdits
    /\ LET tickerUpper == ToUpperCase(newTicker)
       IN  IF CanAdd(portfolioState, tickerUpper)
           THEN /\ portfolioState' = NormalizeWeights(
                        Append(portfolioState, [ticker |-> tickerUpper, weight |-> Num(0)]))
                /\ newTicker' = ""
           ELSE UNCHANGED <<portfolioState, newTicker>>
    /\ lastHandler' = [name |-> "handleAddAsset", text |-> newTicker]
    /\ edits' = edits + 1
    /\ UNCHANGED notEdit

\* The remove button of an asset.
HandleRemoveAsset ==
    /\ edits < MaxEdits
    /\ \E j \in 1..Len(portfolioState) :
          /\ portfolioState' = NormalizeWeights(Without(portfolioState, portfolioState[j].ticker))
          /\ lastHandler' = [name |-> "handleRemoveAsset", ticker |-> portfolioState[j].ticker]
    /\ edits' = edits + 1
    /\ UNCHANGED newTicker
    /\ UNCHANGED notEdit

\* The range input of an asset.
HandleWeightChange ==
    /\ edits < MaxEdits
    /\ \E j \in 1..Len(portfolioState), w \in WeightInputs :
          /\ portfolioState' = WithWeight(portfolioState, portfolioState[j].ticker, w)
          /\ lastHandler' = [name |-> "handleWeightChange", ticker |-> portfolioState[j].ticker,
                             newWeight |-> w]
    /\ edits' = edits + 1
    /\ UNCHANGED newTicker
    /\ UNCHANGED notEdit

\* The button Normalize to 100%: normalizeWeights(portfolio).
NormalizeButton ==
    /\ lastHandler.name # "none"
    /\ edits < MaxEdits
    /\ portfolioState' = NormalizeWeights(portfolioState)
    /\ lastHandler' = [name |-> "normalizeWeights"]
    /\ edits' = edits + 1
    /\ UNCHANGED newTicker
    /\ UNCHANGED notEdit

(***************************************************************************)
(* Specifications                                                          *)
(***************************************************************************)
\* The pairs-trading loop over a price series.
Init == PairsInit /\ RiskIdle /\ CirIdle /\ BinIdle /\ BsIdle /\ MertonIdle /\ GarchIdle /\ LevyIdle /\ StatsIdle /\ NormalIdle /\ DebounceIdle /\ SimIdle /\ EditIdle
Next == PairsStep \/ PairsReturn
Spec == Init /\ [][Next]_vars

\* The pairs-trading loop over a price series whose ratio changes seldom.
InitCalm == CalmInit /\ RiskIdle /\ CirIdle /\ BinIdle /\ BsIdle /\ MertonIdle /\ GarchIdle /\ LevyIdle /\ StatsIdle /\ NormalIdle /\ DebounceIdle /\ SimIdle /\ EditIdle
NextCalm == CalmStep \/ CalmReturn
SpecCalm == InitCalm /\ [][NextCalm]_vars

\* The pairs-trading loop over a series given by its z-scores.
InitSignal == SignalInit /\ RiskIdle /\ CirIdle /\ BinIdle /\ BsIdle /\ MertonIdle /\ GarchIdle /\ LevyIdle /\ StatsIdle /\ NormalIdle /\ DebounceIdle /\ SimIdle /\ EditIdle
NextSignal == SignalStep \/ SignalReturn
SpecSignal == InitSignal /\ [][NextSignal]_vars

\* The historical risk measure.
InitRisk == RiskInit /\ PairsIdle /\ CirIdle /\ BinIdle /\ BsIdle /\ MertonIdle /\ GarchIdle /\ LevyIdle /\ StatsIdle /\ NormalIdle /\ DebounceIdle /\ SimIdle /\ EditIdle
NextRisk == RiskCompute \/ RiskSetParams
SpecRisk == InitRisk /\ [][NextRisk]_vars

\* The CIR simulator and its memo.
InitCir == CirInit /\ PairsIdle /\ RiskIdle /\ BinIdle /\ BsIdle /\ MertonIdle /\ GarchIdle /\ LevyIdle /\ StatsIdle /\ NormalIdle /\ DebounceIdle /\ SimIdle /\ EditIdle
NextCir == CirMemo \/ CirBeginPath \/ CirStep \/ CirEndPath \/ CirReturn
SpecCir == InitCir /\ [][NextCir]_vars

\* The lattice pricer.
InitBin == BinInit /\ PairsIdle /\ RiskIdle /\ CirIdle /\ BsIdle /\ MertonIdle /\ GarchIdle /\ LevyIdle /\ StatsIdle /\ NormalIdle /\ DebounceIdle /\ SimIdle /\ EditIdle
NextBin == BinCall \/ BinTerminal \/ BinInduct \/ BinReturn
SpecBin == InitBin /\ [][NextBin]_vars

\* The closed-form pricer.
InitBs == BsInit /\ PairsIdle /\ RiskIdle /\ CirIdle /\ BinIdle /\ MertonIdle /\ GarchIdle /\ LevyIdle /\ StatsIdle /\ NormalIdle /\ DebounceIdle /\ SimIdle /\ EditIdle
NextBs == BsMemo \/ BsSetParams
SpecBs == InitBs /\ [][NextBs]_vars

\* The CIR simulator recomputed whenever the debounced parameters are set.
NextCirRerun == NextCir \/ CirSetDebouncedParams
SpecCirRerun == InitCir /\ [][NextCirRerun]_vars

\* The Merton fraction.
InitMerton == MertonInit /\ PairsIdle /\ RiskIdle /\ CirIdle /\ BinIdle /\ BsIdle /\ GarchIdle /\ LevyIdle /\ StatsIdle /\ NormalIdle /\ DebounceIdle /\ SimIdle /\ EditIdle
NextMerton == MertonMemo \/ MertonSetGamma
SpecMerton == InitMerton /\ [][NextMerton]_vars

\* The GARCH forecast.
InitGarch == GarchInit /\ PairsIdle /\ RiskIdle /\ CirIdle /\ BinIdle /\ BsIdle /\ MertonIdle /\ LevyIdle /\ StatsIdle /\ NormalIdle /\ DebounceIdle /\ SimIdle /\ EditIdle
NextGarch == GarchBegin \/ GarchStep \/ GarchReturn
SpecGarch == InitGarch /\ [][NextGarch]_vars

\* The Student-t kurtosis.
InitLevy == LevyInit /\ PairsIdle /\ RiskIdle /\ CirIdle /\ BinIdle /\ BsIdle /\ MertonIdle /\ GarchIdle /\ StatsIdle /\ NormalIdle /\ DebounceIdle /\ SimIdle /\ EditIdle
NextLevy == LevyMemo \/ LevyRender \/ LevySetDof
SpecLevy == InitLevy /\ [][NextLevy]_vars

\* The multi-asset aggregator.
InitStats == StatsInit /\ PairsIdle /\ RiskIdle /\ CirIdle /\ BinIdle /\ BsIdle /\ MertonIdle /\ GarchIdle /\ LevyIdle /\ NormalIdle /\ DebounceIdle /\ SimIdle /\ EditIdle
NextStats == StatsPerAsset \/ StatsAggregate
SpecStats == InitStats /\ [][NextStats]_vars

\* The standard-normal sampler; execution is sequential, so a loop whose
\* condition is false is left.
InitNormal == NormalInit /\ PairsIdle /\ RiskIdle /\ CirIdle /\ BinIdle /\ BsIdle /\ MertonIdle /\ GarchIdle /\ LevyIdle /\ StatsIdle /\ DebounceIdle /\ SimIdle /\ EditIdle
NextNormal == NormalDrawU \/ NormalEndU \/ NormalDrawV \/ NormalEndV \/ NormalReturn
SpecNormal == InitNormal /\ [][NextNormal]_vars /\ WF_vars(NormalEndU) /\ WF_vars(NormalEndV)

\* The debounce effect; time passes and a due timeout runs.
InitDebounce == DebounceInit /\ PairsIdle /\ RiskIdle /\ CirIdle /\ BinIdle /\ BsIdle /\ MertonIdle /\ GarchIdle /\ LevyIdle /\ StatsIdle /\ NormalIdle /\ SimIdle /\ EditIdle
NextDebounce == SetPaths \/ DebounceTick \/ DebounceCommit
SpecDebounce == InitDebounce /\ [][NextDebounce]_vars /\ WF_vars(DebounceTick) /\ WF_vars(DebounceCommit)

\* The four path generators: one of them runs.
InitPaths ==
    \/ CirInit /\ PairsIdle /\ RiskIdle /\ BinIdle /\ BsIdle /\ MertonIdle /\ GarchIdle /\ LevyIdle /\ StatsIdle /\ NormalIdle /\ DebounceIdle /\ SimIdle /\ EditIdle
    \/ SimInit /\ PairsIdle /\ RiskIdle /\ CirIdle /\ BinIdle /\ BsIdle /\ MertonIdle /\ GarchIdle /\ LevyIdle /\ StatsIdle /\ NormalIdle /\ DebounceIdle /\ EditIdle
NextSim == SimCall \/ SimBeginPath \/ SimStep \/ SimEndPath \/ SimReturn
NextPaths == NextCir \/ NextSim
SpecPaths == InitPaths /\ [][NextPaths]_vars

\* The portfolio editor.
InitEdit == EditInit /\ PairsIdle /\ RiskIdle /\ CirIdle /\ BinIdle /\ BsIdle /\ MertonIdle /\ GarchIdle /\ LevyIdle /\ StatsIdle /\ NormalIdle /\ DebounceIdle /\ SimIdle
NextEdit == SetNewTicker \/ HandleAddAsset \/ HandleRemoveAsset \/ HandleWeightChange \/ NormalizeButton
SpecEdit == InitEdit /\ [][NextEdit]_vars

(***************************************************************************)
(* Claims about the signal machine                                         *)
(***************************************************************************)
\* The step just taken evaluated a data point (the window was full).
Evaluated == pairsI' = pairsI + 1 /\ pairsI >= lookback - 1
\* The z-score the step just taken recorded.
StepZ == spreadAnalysisData'[Len(spreadAnalysisData')].zScore
\* The step just taken pushed exactly one event, of type t.
Emitted(t) ==
    /\ Len(tradeSignals') = Len(tradeSignals) + 1
    /\ SubSeq(tradeSignals', 1, Len(tradeSignals)) = tradeSignals
    /\ tradeSignals'[Len(tradeSignals')].type = t
\* The step just taken pushed nothing.
EmittedNothing == tradeSignals' = tradeSignals
\* The types of the emitted events, in order.
SignalTypes == [j \in 1..Len(tradeSignals) |-> tradeSignals[j].type]

\* C1: at every data point evaluated while the machine is Flat, it moves to
\* ShortSpread and emits Enter-Short exactly when z > entryZ, and moves to
\* LongSpread and emits Enter-Long exactly when z < -entryZ.
C1_EntryExactlyAtThreshold ==
    [][(Evaluated /\ inTrade = 0) =>
          /\ (inTrade' = 1 /\ Emitted("SHORT")) <=> NGt(StepZ, entryZ)
          /\ (inTrade' = -1 /\ Emitted("LONG")) <=> NLt(StepZ, NNeg(entryZ))]_vars

\* Both entries have happened: a short entry, an exit, then a long entry.
C1_Witness ==
    /\ Len(tradeSignals) >= 3
    /\ \E j, m \in 1..Len(tradeSignals) :
          tradeSignals[j].type = "SHORT" /\ tradeSignals[m].type = "LONG"

\* C2: at every evaluated data point, a machine in ShortSpread returns to
\* Flat and emits Exit exactly when z < exitZ, and a machine in LongSpread
\* returns to Flat and emits Exit exactly when z > -exitZ.
C2_ExitExactlyAtThreshold ==
    [][Evaluated =>
          /\ inTrade = 1 => ((inTrade' = 0 /\ Emitted("EXIT")) <=> NLt(StepZ, exitZ))
          /\ inTrade = -1 => ((inTrade' = 0 /\ Emitted("EXIT")) <=> NGt(StepZ, NNeg(exitZ)))]_vars

\* A short spread and a long spread have both been exited.
C2_Witness ==
    \E j, m \in 1..Len(tradeSignals) :
       /\ j + 1 < m
       /\ m + 1 <= Len(tradeSignals)
       /\ tradeSignals[j].type # tradeSignals[m].type
       /\ tradeSignals[j].type \in {"SHORT", "LONG"}
       /\ tradeSignals[m].type \in {"SHORT", "LONG"}
       /\ tradeSignals[j + 1].type = "EXIT"
       /\ tradeSignals[m + 1].type = "EXIT"

\* None of the threshold conditions of the current state holds for z.
NoThreshold(st, z) ==
    \/ st = 0 /\ ~NGt(z, entryZ) /\ ~NLt(z, NNeg(entryZ))
    \/ st = 1 /\ ~NLt(z, exitZ)
    \/ st = -1 /\ ~NGt(z, NNeg(exitZ))

\* C3: at any data point where none of the threshold conditions for the
\* current state holds, the state is unchanged and no event is emitted.
C3_NoOtherTransition ==
    [][(Evaluated /\ NoThreshold(inTrade, StepZ)) =>
          (inTrade' = inTrade /\ EmittedNothing)]_vars

\* The machine sits in a position after a point that did not exit it.
C3_Witness ==
    /\ inTrade # 0
    /\ Len(tradeSignals) >= 1
    /\ tradeSignals[Len(tradeSignals)].date < pairsI
    /\ pairsPc = "loop"

\* The z-scores swing from +2.5 down to -0.2, once or several times.
Oscillates(zs) ==
    /\ Len(zs) >= 2
    /\ Len(zs) % 2 = 0
    /\ \A j \in 1..Len(zs) : zs[j] = (IF j % 2 = 1 THEN 25 ELSE -2)

\* The run of the claim: entryZ = 2.0, exitZ = 0.5, the series is finished.
C4_Case ==
    /\ pairsPc = "done"
    /\ entryZ = Dec(20, 10)
    /\ exitZ = Dec(5, 10)
    /\ Oscillates(zInput)

\* C4 as stated: every such oscillating series emits exactly
\* [Enter-Short, Exit] and ends Flat.
C4_Original == C4_Case => (SignalTypes = <<"SHORT", "EXIT">> /\ inTrade = 0)

\* C4: for entryZ = 2.0 and exitZ = 0.5, a series whose z-scores swing
\* between +2.5 and -0.2 makes the machine emit Enter-Short at every +2.5
\* and Exit at every -0.2 and finish Flat; the emitted sequence is exactly
\* [Enter-Short, Exit] when the series makes one swing.
C4_OnePairPerSwing ==
    C4_Case =>
       /\ Len(tradeSignals) = Len(zInput)
       /\ \A j \in 1..Len(tradeSignals) :
             /\ tradeSignals[j].type = (IF j % 2 = 1 THEN "SHORT" ELSE "EXIT")
             /\ tradeSignals[j].date = j
       /\ inTrade = 0
       /\ Len(zInput) = 2 => SignalTypes = <<"SHORT", "EXIT">>

\* One swing has been run to the end.
C4_Witness ==
    /\ C4_Case
    /\ zInput = <<25, -2>>
    /\ SignalTypes = <<"SHORT", "EXIT">>

\* The thresholds violate entryZ > exitZ >= 0.
PreconditionViolated == ~(NGt(entryZ, exitZ) /\ NGe(exitZ, Num(0)))

LastRatios ==
    [j \in 1..lookback |->
        NDiv(mergedData'[pairsI + 1 - lookback + j].price1,
             mergedData'[pairsI + 1 - lookback + j].price2)]

\* The record the step just taken pushed onto spreadAnalysisData.
StepRecord == spreadAnalysisData'[Len(spreadAnalysisData')]

\* C20: every data point is processed once; at an index i < lookback - 1 no
\* z-score is computed, the state stays Flat and no event is emitted; at an
\* index i >= lookback - 1 at most one event is emitted, and the z-score it
\* is decided on is computed from exactly the last lookback ratios ending
\* at i.
C20_EvaluatedOnFullWindow ==
    [][(pairsI' = pairsI + 1) =>
          /\ Len(spreadAnalysisData') = pairsI + 1
          /\ StepRecord.date = pairsI + 1
          /\ pairsI < lookback - 1 =>
                /\ StepRecord.zScore = Null
                /\ inTrade = 0
                /\ inTrade' = 0
                /\ tradeSignals' = <<>>
          /\ pairsI >= lookback - 1 =>
                /\ StepRecord.zScore = ZScore(LastRatios[lookback], LastRatios, lookback)
                /\ \/ EmittedNothing
                   \/ /\ \E t \in {"SHORT", "LONG", "EXIT"} : Emitted(t)
                      /\ tradeSignals'[Len(tradeSignals')].date = pairsI + 1
                      /\ tradeSignals'[Len(tradeSignals')].z = StepRecord.zScore]_vars

\* An event has been emitted at a point whose window does not start at the
\* head of the series, after points that were read on a window not yet full.
C20_Witness ==
    /\ Len(tradeSignals) >= 1
    /\ tradeSignals[Len(tradeSignals)].date > lookback + 1
    /\ mergedData[1].price1 # mergedData[tradeSignals[Len(tradeSignals)].date].price1
    /\ spreadAnalysisData[lookback - 1].zScore = Null
    /\ spreadAnalysisData[lookback].zScore # Null

\* The events at odd positions are entries and those at even positions exits.
Alternates ==
    \A j \in 1..Len(tradeSignals) :
        IF j % 2 = 1 THEN tradeSignals[j].type \in {"SHORT", "LONG"}
        ELSE tradeSignals[j].type = "EXIT"

\* C25: in the list of emitted events entries and exits strictly alternate,
\* starting with an entry; after any prefix of the series the machine is
\* Flat exactly when the list is empty or ends with an Exit; events already
\* emitted are never changed or removed, and the dates of the events are
\* strictly increasing.
C25_EventsAlternate ==
    /\ [](Alternates)
    /\ [](inTrade = 0 <=>
            (tradeSignals = <<>> \/ tradeSignals[Len(tradeSignals)].type = "EXIT"))
    /\ [](\A j \in 1..(Len(tradeSignals) - 1) :
            tradeSignals[j].date < tradeSignals[j + 1].date)
    /\ [][/\ Len(tradeSignals') >= Len(tradeSignals)
          /\ SubSeq(tradeSignals', 1, Len(tradeSignals)) = tradeSignals]_vars

\* A short round trip followed by a long round trip.
C25_Witness ==
    /\ pairsPc = "done"
    /\ zInput # <<>>
    /\ SignalTypes = <<"SHORT", "EXIT", "LONG", "EXIT">>
    /\ inTrade = 0

\* C26: the machine never moves directly between ShortSpread and LongSpread:
\* from a position a step emits nothing or exactly one Exit, a short
\* position that sees z < -entryZ (a long one that sees z > entryZ) emits
\* exactly the Exit and becomes Flat, and an entry follows an Exit by at
\* least one data point.
C26_NoDirectReversal ==
    /\ [][inTrade # 0 =>
             /\ inTrade' \in {inTrade, 0}
             /\ EmittedNothing \/ Emitted("EXIT")]_vars
    /\ [][(Evaluated /\ inTrade = 1 /\ NLt(StepZ, NNeg(entryZ))) =>
             (inTrade' = 0 /\ Emitted("EXIT"))]_vars
    /\ [][(Evaluated /\ inTrade = -1 /\ NGt(StepZ, entryZ)) =>
             (inTrade' = 0 /\ Emitted("EXIT"))]_vars
    /\ [](\A j \in 1..(Len(tradeSignals) - 1) :
             tradeSignals[j].type = "EXIT" =>
                tradeSignals[j + 1].date >= tradeSignals[j].date + 1)

\* A short position met z < -entryZ, left with an Exit at that point, and
\* the long entry came at the next point.
C26_Witness ==
    /\ zInput # <<>>
    /\ Len(tradeSignals) = 3
    /\ tradeSignals[1].type = "SHORT"
    /\ tradeSignals[2].type = "EXIT"
    /\ NLt(tradeSignals[2].z, NNeg(entryZ))
    /\ tradeSignals[3].type = "LONG"
    /\ tradeSignals[3].date = tradeSignals[2].date + 1

\* The ratios of the window of the step just taken.
StepWindow == Window(mergedData', pairsI, lookback)
\* Every ratio of that window is the same.
WindowIsConstant == \A j \in 1..lookback : StepWindow[j] = StepWindow[1]

\* C27: at an evaluated point whose lookback window holds equal ratios, so
\* that the moving standard deviation is 0, the z-score is the undefined
\* quotient 0/0, and the machine keeps its state and emits no event, be it
\* Flat, ShortSpread or LongSpread.
C27_ConstantWindowKeepsState ==
    [][(Evaluated /\ WindowIsConstant /\ MovingStd(StepWindow, lookback) = Num(0)) =>
          /\ NSub(StepWindow[lookback], MovingAvg(StepWindow, lookback)) = Num(0)
          /\ IsNaN(StepZ)
          /\ inTrade' = inTrade
          /\ EmittedNothing]_vars

\* The machine has met a window of equal ratios while Flat (the first
\* window) and again while in a position, and is still in that position.
C27_Witness ==
    /\ pairsI = CalmSeriesLen
    /\ inTrade # 0
    /\ Len(tradeSignals) = 1
    /\ IsNaN(spreadAnalysisData[lookback].zScore)
    /\ IsNaN(spreadAnalysisData[pairsI].zScore)
(***************************************************************************)
(* Claims about the historical risk measure                                *)
(***************************************************************************)
\* C5: for every return series, confidence and horizon, the historical CVaR
\* is greater than or equal to the historical VaR, the empty tail included.
C5_CVaRAtLeastVaR == riskPc = "done" => NGe(histCVaR, histVaR)


\* floor((1 - c) * N) for the confidence c = confidence / 100 and
\* N = dailyReturns.length, in integers.
ExpectedIndex ==
    ((100 * SCALE - confidence.v) * Len(dailyReturns)) \div (100 * SCALE)

\* C21: the VaR index floor((1 - c) * N) is a valid index of the sorted
\* returns (0 <= index <= N - 1), so the VaR is the scaled negated return at
\* that index; when the index is 0 the tail is empty and the CVaR is
\* reported as 0, not as the quotient 0 / 0.
C21_IndexValidEmptyTailZero ==
    riskPc = "done" =>
        /\ ExpectedIndex \in 0..(Len(dailyReturns) - 1)
        /\ histVaR = NMul(NNeg(dailyReturns[ExpectedIndex + 1]), NSqrt(Num(horizon)))
        /\ IsFin(histVaR)
        /\ ExpectedIndex = 0 => histCVaR = Num(0)
        /\ IsFin(histCVaR)

\* The measures have been computed on a series whose tail is empty.
C21_Witness ==
    /\ riskPc = "done"
    /\ Len(dailyReturns) = 3
    /\ confidence = Num(95)
    /\ histCVaR = Num(0)
    /\ NGt(histVaR, Num(0))

\* C28: whenever floor((1 - c) * N) >= 1, the returns below the VaR index
\* are none of them above the return at the index, and the historical CVaR
\* (the negated mean of those returns, scaled by sqrt(h)) is >= the
\* historical VaR (the negated return at the index, scaled by sqrt(h)).
C28_TailCVaRAtLeastVaR ==
    (riskPc = "done" /\ ExpectedIndex >= 1) =>
        /\ \A j \in 1..ExpectedIndex :
              NLe(dailyReturns[j], dailyReturns[ExpectedIndex + 1])
        /\ IsFin(histCVaR)
        /\ IsFin(histVaR)
        /\ NGe(histCVaR, histVaR)

\* A tail of two returns whose mean loss exceeds the loss at the index.
C28_Witness ==
    /\ riskPc = "done"
    /\ ExpectedIndex = 2
    /\ horizon = 10
    /\ NGt(histVaR, Num(0))
    /\ NGt(histCVaR, histVaR)
(***************************************************************************)
(* Claims about the CIR simulator                                          *)
(***************************************************************************)
\* Every rate recorded in a path.
RatesOf(path) == {path[j].rate : j \in 1..Len(path)}
\* Every rate recorded so far, in the current path and the finished ones.
RecordedRates == RatesOf(cirPath) \cup UNION {RatesOf(cirPaths[m]) : m \in 1..Len(cirPaths)}

\* C6: in every generated path, for every sequence of random draws and
\* every parameter combination with r0 >= 0, every recorded rate is >= 0.
C6_RatesNonNegative ==
    (cirPc \in {"inner", "outer", "done"} /\ NGe(cirArgs.r0, Num(0))) =>
        \A r \in RecordedRates : NGe(r, Num(0))

\* A step has been clamped: a recorded rate after the first point is 0.
C6_Witness ==
    /\ cirPc = "inner"
    /\ Len(cirPath) >= 2
    /\ cirPath[Len(cirPath)].rate = Num(0)
    /\ NGt(cirPath[1].rate, Num(0))

\* The Feller condition 2ab >= sigma^2 of the arguments the simulator is
\* run with.
FellerOfArgs == NGe(NMul(NMul(Num(2), cirArgs.a), cirArgs.b), NPow(cirArgs.sigma, 2))

\* C7: the reported Feller flag is true exactly when 2ab >= sigma^2 holds
\* for the parameter values the simulator is run with.
C7_FellerFlagOfRunValues == cirPc = "done" => (chartPaths.fellerMet <=> FellerOfArgs)


\* C13: a recomputation is a pure function of its parameter snapshot: when
\* the memo returns for parameter values equal to those of the result it
\* holds (generateCIRPaths called twice with identical arguments), the
\* paths it returns are the paths it returned before.
C13_SameArgumentsSamePaths ==
    [][(/\ cirPc = "outer"
        /\ cirPc' = "done"
        /\ chartPaths # Null
        /\ chartPathsDeps = debouncedParams)
       => chartPaths' = chartPaths]_vars
(***************************************************************************)
(* Claims about the lattice pricer                                         *)
(***************************************************************************)
\* The risk-neutral probability has been computed.
BinChecked == binPc \in {"terminal", "induct", "done"}

\* The regime p < 0 or p > 1, written out on the value of p.
POutsideUnit == NLt(binP, Num(0)) \/ NGt(binP, Num(1))

\* C8: whenever the risk-neutral probability p is below 0 or above 1,
\* calculateBinomialPrice returns exactly 0 and performs no backward
\* induction: the array of prices is never filled and no layer is entered.
C8_NoArbitrageReturnsZero ==
    (BinChecked /\ POutsideUnit) =>
        /\ binPc = "done"
        /\ binResult = Num(0)
        /\ prices = <<>>
        /\ binJ = Null

\* A call on a lattice of at least two steps whose p is above 1 has returned.
C8_Witness ==
    /\ binPc = "done"
    /\ binArgs.steps >= 2
    /\ IsFin(binP)
    /\ NGt(binP, Num(1))
    /\ binResult = Num(0)

\* The arguments are degenerate: T <= 0 or sigma <= 0, with r >= 0.
BinDegenerate ==
    /\ NLe(binArgs.T, Num(0)) \/ NLe(binArgs.sigma, Num(0))
    /\ NGe(binArgs.r, Num(0))

\* C9: for T <= 0 or sigma <= 0 and every r >= 0, calculateBinomialPrice
\* returns a defined number that is at least 0: the intrinsic value or 0,
\* never NaN.
C9_DegenerateDefined ==
    (binPc = "done" /\ BinDegenerate) =>
        /\ IsFin(binResult)
        /\ NGe(binResult, Num(0))
        /\ \/ binResult = Num(0)
           \/ binResult = NMax(Num(0), NSub(binArgs.S, binArgs.K))


\* The layer-by-layer value of node i of layer j of the running lattice:
\* V(n, i) = max(0, S u^(n-i) d^i - K) and
\* V(j, i) = e^(-r dt) (p V(j+1, i) + (1 - p) V(j+1, i+1)).
RECURSIVE LayerValue(_, _)
LayerValue(j, i) ==
    IF j = binArgs.steps
    THEN TerminalPayoff(binArgs, binU, binD, i)
    ELSE Discounted(binP, LayerValue(j + 1, i), LayerValue(j + 1, i + 1), binArgs.r, binDt)

\* C11: the single-array in-place backward induction holds, after each
\* layer, the layer-by-layer continuation values of that layer, and the
\* value returned from prices[0] is the layer-by-layer value of the root;
\* no node is replaced by max(continuation, exercise value).
C11_InPlaceEqualsLayered ==
    /\ binPc = "induct" =>
          \A i \in 0..(binJ + 1) : prices[i + 1] = LayerValue(binJ + 1, i)
    /\ (binPc = "done" /\ prices # <<>>) => binResult = LayerValue(0, 0)

\* A lattice of at least two steps with a negative rate has been folded to
\* a positive root value that is below the exercise value S - K of the root.
C11_Witness ==
    /\ binPc = "done"
    /\ binArgs.steps >= 2
    /\ NLt(binArgs.r, Num(0))
    /\ Len(prices) = binArgs.steps + 1
    /\ IsFin(binResult)
    /\ NGt(binResult, Num(0))
    /\ NLt(binResult, NSub(binArgs.S, binArgs.K))
(***************************************************************************)
(* Claims about the closed-form pricer                                     *)
(***************************************************************************)
\* The parameters of the memo are degenerate: T <= 0 or sigma <= 0.
BsDegenerate == NLe(bsT, Num(0)) \/ NLe(bsSigma, Num(0))

\* C10: when T <= 0 or sigma <= 0 the Black-Scholes routine returns
\* call = max(0, S - K) and put = max(0, K - S).
C10_DegenerateIntrinsic ==
    (bsPc = "done" /\ BsDegenerate) =>
        /\ callPrice = NMax(Num(0), NSub(bsS, bsK))
        /\ putPrice = NMax(Num(0), NSub(bsK, bsS))

(***************************************************************************)
(* Claims about the Merton fraction                                        *)
(***************************************************************************)
\* (mu - r) / (gamma sigma^2) of the slider values, in decimals.
UncappedFraction ==
    NDiv(NSub(NDiv(mertonMu, Num(100)), NDiv(mertonR, Num(100))),
         NMul(mertonGamma, NPow(NDiv(mertonSigma, Num(100)), 2)))

\* The fraction limited to [-1, 2].
ClampedFraction ==
    IF NGt(UncappedFraction, Num(2)) THEN Num(2)
    ELSE IF NLt(UncappedFraction, Num(-1)) THEN Num(-1)
    ELSE UncappedFraction

\* C14: the reported fraction is the uncapped (mu - r) / (gamma sigma^2),
\* also where the displayed allocation is clamped to [-1, 2]; the clamp
\* changes only the displayed pair (risky, 1 - risky).
C14_ReportedFractionUncapped ==
    mertonPc = "done" =>
        /\ riskyFraction = UncappedFraction
        /\ allocation[1].value = ClampedFraction
        /\ allocation[2].value = NSub(Num(1), ClampedFraction)
        /\ mertonMu = Num(8) /\ mertonR = Num(3) /\ mertonSigma = Num(20) /\ mertonGamma = Num(3)
              => riskyFraction = Dec(4166, 10000)

\* The memo has run for values whose fraction is above the cap.
C14_Witness ==
    /\ mertonPc = "done"
    /\ NGt(UncappedFraction, Num(2))
    /\ riskyFraction = UncappedFraction
    /\ allocation[1].value = Num(2)
    /\ allocation[2].value = Num(-1)
(***************************************************************************)
(* Claims about the GARCH forecast                                         *)
(***************************************************************************)
\* The unconditional variance omega / (1 - alpha - beta), in percent squared.
UnconditionalVariance == NDiv(GarchOmega, NSub(NSub(Num(1), GarchAlpha), GarchBeta))

\* The distance of v from the unconditional variance.
DistanceToUnconditional(v) == NAbs(NSub(v, UnconditionalVariance))

\* C15: with omega = 1e-6, alpha = 0.1, beta = 0.88 the iterated forecast
\* variance converges toward omega / (1 - alpha - beta): a forecast step
\* taken at that variance leaves it unchanged, and the forecast steps never
\* move the variance away from it.
C15_UnconditionalFixedPoint ==
    [][(garchPc = "loop" /\ garchI' = garchI + 1) =>
          /\ lastVariance = UnconditionalVariance => lastVariance' = UnconditionalVariance
          /\ NLe(DistanceToUnconditional(lastVariance'), DistanceToUnconditional(lastVariance))]_vars
(***************************************************************************)
(* Claims about the Student-t kurtosis                                     *)
(***************************************************************************)
\* 3 + 6 / (nu - 4) in hundredths, rounded to the nearest hundredth.
KurtosisHundredths(nu) == (300 * (nu - 4) + 600) \div (nu - 4) +
    (IF 2 * (((300 * (nu - 4) + 600) * 100) \div (nu - 4) % 100) >= 100 THEN 1 ELSE 0)

\* C16: for every degrees-of-freedom value nu the kurtosis is reported as
\* the number 3 + 6 / (nu - 4) exactly when nu > 4, and as "Undefined",
\* never as a numeric value, when nu <= 4.
C16_KurtosisReported ==
    levyPc = "done" =>
        /\ dof > 4 => /\ kurtosisShown.t.kind = "fixed"
                      /\ kurtosisShown.t.hundredths = KurtosisHundredths(dof)
        /\ dof <= 4 => kurtosisShown.t = UndefinedText

\* The card has been rendered for nu = 4, the largest value without a
\* kurtosis.
C16_Witness ==
    /\ levyPc = "done"
    /\ dof = 4
    /\ IsInf(kurtosis.t)
    /\ kurtosisShown.t = UndefinedText
(***************************************************************************)
(* Claims about the multi-asset aggregator                                 *)
(***************************************************************************)
\* C17: for every portfolio (any weights, assets with missing or too-short
\* price data, the empty portfolio) the variance is floored at 0 before the
\* square root, so the returned volatility is a defined number >= 0; an
\* empty portfolio yields mean 0 and volatility 0.
C17_VolatilityDefined ==
    statsPc = "done" =>
        /\ IsFin(portfolioStats.vol)
        /\ portfolioStats.vol.v >= 0
        /\ IsFin(portfolioStats.mean)
        /\ Len(portfolio) = 0 => portfolioStats = [mean |-> Num(0), vol |-> Num(0)]
        /\ Len(portfolio) > 0 =>
              \/ portfolioVariance.v >= 0 /\ NMul(portfolioStats.vol, portfolioStats.vol).v <= portfolioVariance.v
              \/ portfolioVariance.v < 0 /\ portfolioStats.vol = Num(0)

\* A portfolio of an asset with two price points (a single return) and an
\* asset without data, one of them held short, has been aggregated.
C17_Witness ==
    /\ statsPc = "done"
    /\ Len(portfolio) = 2
    /\ portfolio[1].ticker = "NVDA"
    /\ portfolio[2].ticker = "XOM"
    /\ portfolio[1].weight = Dec(-5, 10)
    /\ portfolioStats.vol = Num(0)
(***************************************************************************)
(* Claims about the standard-normal sampler                                *)
(***************************************************************************)
\* The number of zeros at the head of the sequence s.
RECURSIVE LeadingZeros(_)
LeadingZeros(s) ==
    IF s = <<>> THEN 0
    ELSE IF s[1] = Num(0) THEN 1 + LeadingZeros(Tail(s))
    ELSE 0

\* The draws of a finished invocation: zeros, the u used, zeros, the v used.
DrawsAreZerosThenUThenZerosThenV ==
    LET a == LeadingZeros(drawn)
        rest == SubSeq(drawn, a + 2, Len(drawn))
        b == LeadingZeros(rest)
    IN  /\ Len(drawn) = a + b + 2
        /\ drawn[a + 1] = normU
        /\ drawn[Len(drawn)] = normV

\* The uniform source has produced a non-zero u and a non-zero v.
BothProduced ==
    /\ normPc \in {"u", "v"}
    /\ normU # Num(0)
    /\ normV # Num(0)

\* C19: the value passed to ln is never 0: a draw equal to 0 is discarded
\* and drawn again; once a non-zero u and a non-zero v have been produced
\* no further draw is made and both loops are left for the return
\* statement; a finished invocation has made exactly two draws when neither
\* the first draw of u nor the first draw of v is 0.
C19_NoLogOfZero ==
    /\ [](normPc = "done" =>
             /\ logArg # Num(0)
             /\ logArg = normU
             /\ normV # Num(0)
             /\ IsFin(normal)
             /\ DrawsAreZerosThenUThenZerosThenV
             /\ (drawn[1] # Num(0) /\ drawn[2] # Num(0)) => Len(drawn) = 2)
    /\ [][BothProduced => drawn' = drawn]_vars
    /\ ((normPc = "u" /\ normU # Num(0)) ~> normPc = "v")
    /\ (BothProduced ~> normPc \in {"return", "done"})

\* The source returned 0 for u and then for v before the values used.
C19_Witness ==
    /\ normPc = "done"
    /\ Len(drawn) = 4
    /\ drawn[1] = Num(0)
    /\ drawn[3] = Num(0)
    /\ logArg = drawn[2]
    /\ normV = drawn[4]
(***************************************************************************)
(* Claims about the debounce effect                                        *)
(***************************************************************************)
\* C22: after a burst of changes less than 300 ms apart and 300 ms without
\* a change, exactly one commit occurs: no commit happens before 300 ms
\* have passed since the last change, the commit sets the debounced value
\* to the last value of the parameter, no second commit follows it, and
\* once the changes stop the debounced value equals the live parameter
\* from some moment on.
C22_OneCommitAfterQuiet ==
    /\ [](commitsSinceChange <= 1)
    /\ [](commitsSinceChange = 1 => (sinceChange = DebounceDelay /\ debouncedPaths = paths))
    /\ []((sinceChange = DebounceDelay /\ handlers = {}) => commitsSinceChange = 1)
    /\ <>[](debouncedPaths = paths /\ commitsSinceChange = 1)

\* A burst of three changes has been committed once, with its last value.
C22_Witness ==
    /\ effects = 3
    /\ Cardinality(held) = 3
    /\ commitsSinceChange = 1
    /\ debouncedPaths = paths
    /\ handlers = {}

\* C30: at most one timeout is pending at any time, because the effect of
\* every change clears the timeout of the previous effect before it sets
\* its own; the debounced value is always a value the parameter has held,
\* and a commit happens only when the parameter has not changed for 300 ms
\* and commits that value, so a value that was superseded within 300 ms is
\* never committed.
C30_OneTimerPending ==
    /\ [](Cardinality(handlers) <= 1)
    /\ [](debouncedPaths \in held)
    /\ [][(effects' = effects + 1) =>
             handlers' = {[id |-> effects', due |-> DebounceDelay, value |-> paths']}]_vars
    /\ [][(commitsSinceChange' = commitsSinceChange + 1) =>
             (sinceChange = DebounceDelay /\ debouncedPaths' = paths)]_vars

\* Two changes have followed each other within 300 ms: the first value is
\* superseded and the timeout of the second is pending.
C30_Witness ==
    /\ effects = 2
    /\ Cardinality(held) = 3
    /\ sinceChange < DebounceDelay
    /\ Cardinality(handlers) = 1
    /\ debouncedPaths = InitialPaths
    /\ paths # InitialPaths
(***************************************************************************)
(* Claims about the simulated paths                                        *)
(***************************************************************************)
\* The value of a point of a path, whatever the generator calls it.
PointValue(pt) ==
    IF "rate" \in DOMAIN pt THEN pt.rate
    ELSE IF "price" \in DOMAIN pt THEN pt.price
    ELSE pt.value

\* The path begins at (0, initial) and its j-th point has time j * dt.
WellTimed(path, initial, dt) ==
    /\ path[1].time = Num(0)
    /\ PointValue(path[1]) = initial
    /\ \A j \in 1..Len(path) :
          /\ path[j].time = Fin((j - 1) * dt.v)
          /\ path[j].time.v >= 0
          /\ j > 1 => path[j].time.v >= path[j - 1].time.v

\* The initial value the running generator was called with.
SimInitial == IF simKind = "portfolio" THEN simArgs.initialValue ELSE simArgs.S0

\* C23: every path of the GBM, CIR, jump-diffusion and portfolio generators
\* begins with the point (0, initial value), has steps + 1 points when it is
\* complete, and its j-th point has time j * dt, so that its times are
\* non-negative and non-decreasing.
C23_PathsStartAtZero ==
    /\ simPath # <<>> => WellTimed(simPath, SimInitial, simDt)
    /\ \A m \in 1..Len(allPaths) :
          /\ Len(allPaths[m]) = SimSteps + 1
          /\ WellTimed(allPaths[m], SimInitial, simDt)
    /\ cirPath # <<>> => WellTimed(cirPath, cirArgs.r0, cirDt)
    /\ \A m \in 1..Len(cirPaths) :
          /\ Len(cirPaths[m]) = CirSteps + 1
          /\ WellTimed(cirPaths[m], cirArgs.r0, cirDt)
    /\ simPc = "done" => Len(allPaths) = SimPathCount
    /\ cirPc = "done" => Len(chartPaths.paths) = CirPathCount

\* A jump-diffusion path over two years is complete and ends at a time
\* above 1.
C23_Witness ==
    /\ simPc = "done"
    /\ simKind = "jump"
    /\ Len(allPaths) = 1
    /\ Len(allPaths[1]) = SimSteps + 1
    /\ allPaths[1][SimSteps + 1].time.v > SCALE
    /\ allPaths[1][SimSteps + 1].price # allPaths[1][1].price
(***************************************************************************)
(* Claims about the portfolio editor                                       *)
(***************************************************************************)
\* The sum of the weights of the first n assets, in units of 1 / SCALE.
RECURSIVE SumUnits(_, _)
SumUnits(assets, n) == IF n = 0 THEN 0 ELSE SumUnits(assets, n - 1) + assets[n].weight.v

\* The tickers of a portfolio, in order.
TickersOf(assets) == [j \in 1..Len(assets) |-> assets[j].ticker]

\* The handler that just ran called normalizeWeights.
Normalizes ==
    \/ lastHandler'.name \in {"handleRemoveAsset", "normalizeWeights"}
    \/ lastHandler'.name = "handleAddAsset" /\ TickersOf(portfolioState') # TickersOf(portfolioState)

\* The argument of that call of normalizeWeights.
NormalizeArgument ==
    CASE lastHandler'.name = "handleRemoveAsset" ->
           SelectSeq(portfolioState, LAMBDA a : a.ticker # lastHandler'.ticker)
      [] lastHandler'.name = "handleAddAsset" ->
           portfolioState \o <<[ticker |-> TickersOf(portfolioState')[Len(portfolioState')],
                                weight |-> Num(0)]>>
      [] OTHER -> portfolioState

\* The weight of asset j of p after another division by the total of p.
Renormalized(p, j) == (p[j].weight.v * SCALE) \div SumUnits(p, Len(p))

\* The distance of two integers.
Dist(x, y) == IF x < y THEN y - x ELSE x - y

\* The parts of the claim that do not depend on rounding: tickers and order
\* are kept, finite weights stay finite, a total of 0 leaves every weight
\* unchanged, and a weight change sets one weight without normalizing.
C24_Exact(a, p) ==
    /\ Normalizes =>
          /\ TickersOf(p) = TickersOf(a)
          /\ \A j \in 1..Len(p) : IsFin(p[j].weight)
          /\ SumUnits(a, Len(a)) = 0 => p = a
    /\ lastHandler'.name = "handleWeightChange" =>
          /\ TickersOf(p) = TickersOf(portfolioState)
          /\ \A j \in 1..Len(p) :
                p[j].weight = (IF p[j].ticker = lastHandler'.ticker
                               THEN Fin(lastHandler'.newWeight * (SCALE \div 100))
                               ELSE portfolioState[j].weight)

C29_TickersUniqueAndKnown ==
    /\ [](\A i, j \in 1..Len(portfolioState) :
             /\ portfolioState[i].ticker \in StockTickers
             /\ i # j => portfolioState[i].ticker # portfolioState[j].ticker)
    /\ [][(/\ lastHandler'.name = "handleAddAsset"
           /\ \/ ToUpperCase(lastHandler'.text) = ""
              \/ ToUpperCase(lastHandler'.text) \notin StockTickers
              \/ \E j \in 1..Len(portfolioState) :
                    portfolioState[j].ticker = ToUpperCase(lastHandler'.text))
          => portfolioState' = portfolioState]_vars
    /\ [][(lastHandler'.name = "handleWeightChange") =>
             /\ Len(portfolioState') = Len(portfolioState)
             /\ \A j \in 1..Len(portfolioState) :
                   /\ portfolioState'[j].ticker = portfolioState[j].ticker
                   /\ portfolioState[j].ticker # lastHandler'.ticker =>
                         portfolioState'[j].weight = portfolioState[j].weight]_vars

\* KO has been added from the text "ko", and a later add of a ticker
\* without data has been refused.
C29_Witness ==
    /\ lastHandler = [name |-> "handleAddAsset", text |-> "XOM"]
    /\ Len(portfolioState) = 4
    /\ portfolioState[4].ticker = "KO"
    /\ newTicker = "XOM"
=============================================================================
